---- MODULE Spec2Model ----
(***************************************************************************)
(* State-machine model of the DataImporter command-line scripts (Square    *)
(* catalog / location / order seeding and tear-down).  Every script is an  *)
(* independent batch job; `script` names the one that is running and `pc`  *)
(* is its position (the await / timer it is suspended at).  The remote     *)
(* API is the environment: each awaited call resolves with a status the    *)
(* model draws from Statuses.                                              *)
(***************************************************************************)
EXTENDS Integers, Sequences, FiniteSets, TLC

VARIABLES
    script,            \* the script that was launched
    pc,                \* suspension point of the script's main async function
    exitCode,          \* "none" while running, then "0" or "1"
    thrown,            \* the error that ended the run ("none" when there is none)
    log,               \* remote calls made since (and including) the last listing
    waited,            \* milliseconds slept by the retry loop that ran last
    \* ---- the batching loop: for (i = 0; i < L.length; i += N) L.slice(i, i + N)
    L, N, offset, chunks,
    \* ---- delete-catalog.ts
    srvModifierLists,  \* MODIFIER_LIST ids the server still holds
    srvObjects,        \* ITEM / CATEGORY / DISCOUNT ids the server still holds
    phase,             \* "modifiers" (deleteAllModifiers) or "objects"
    listed, i, batch, totalDeleted,
    attempt, delay,    \* locals of safeBatchDelete
    sbdResult,         \* "idle", "running", "returned" or "thrown"
    \* ---- delete-locations.ts
    srvLocations,      \* what listLocations returns: location ids, 0 for no id
    srvInactive,       \* ids of the locations the server has set INACTIVE
    numberOfLocations, locationsToDelete,
    loc,               \* index of the for-of loop over locationsToDelete
    retryCount,
    \* ---- fetchAllImages (delete-images.ts, create-catalog-with-images.ts)
    srvImages,         \* number M of IMAGE objects the server holds (ids 1..M)
    cursor,            \* 0 for undefined, else the position the next page starts after
    images,            \* the accumulated result
    fetches,           \* page fetches made
    imgIdx, deletedCount, errorCount,   \* deleteAllImages
    \* ---- the import scripts
    categories, itemsPerCategory, modifierGroups,   \* argv
    mappedCats, mappedMods,   \* placeholders the first upsert's idMappings resolve
    allItems,
    itemOffset,        \* i of the loop that imports allItems in batches
    catState,          \* import-catalog-with-images: state of each category callback
    itemState,         \* import-catalog-with-images: state of each item callback
    \* ---- the image pools: limit = pLimit(10), downloadLimit = pLimit(3)
    count,             \* argv.count: units handed to limit(...)
    limitQueue,        \* units waiting for a slot of limit
    downloadQueue,     \* units holding a slot of limit, waiting for one of downloadLimit
    delaying,          \* units in a slot of downloadLimit, in its delay(1000)
    downloading,       \* units in a slot of downloadLimit, axios.get in flight
    uploading,         \* units past the download: sharp and createCatalogImage
    retryWaiting,      \* units in the delay(2000) that follows a 429
    fulfilledCount, rejectedCount,  \* units whose promise has settled
    \* ---- temp_images (import-catalog-with-images, generate-images)
    tempCleaned,       \* cleanupTempDirectory has run
    \* ---- generateAndUploadImage, one unit on its own
    uuid,              \* uuidv4() calls made so far; the next one returns uuid + 1
    \* ---- manage-taxes delete
    srvTaxes,          \* TAX ids the server still holds
    taxes,             \* const taxes = await this.listTaxes()
    \* ---- generate-orders and order-data-generator
    srvLocs,           \* what listLocations returns: location ids, 0 for no id
    locations,         \* SquareManager.locations
    srvItems,          \* REGULAR items of the catalog: i |-> number of variations
    itemIds,           \* what searchCatalogItems returned
    orderIdx,          \* position of the loop over the items
    pending,           \* generate-orders: callbacks of the batch still in flight
    ordersOk, ordersFailed,   \* generate-orders: createOrder calls settled in this cycle
    orderTaxes,        \* the appliedTaxes lists carried by the orders sent so far
    cycle,             \* generate-orders: full cycles completed
    \* ---- generateImages, unit by unit
    results,           \* i |-> state of the promise of unit i (Image<i>)
    imageIds,          \* the list written to generated_image_ids.json
    \* ---- safeBatchDelete
    retriesArg,        \* the maxRetries parameter of the calls of safeBatchDelete
    \* ---- processCategory
    itemCounts,        \* per group: count of items, objects generated per item
    grp, index,        \* position of the two for loops
    bulkPayload, batchPayload,
    generated          \* every object generateItemObjects has returned, in order

comVars == <<script, pc, exitCode, thrown, log, waited>>
chVars  == <<L, N, offset, chunks>>
dcVars  == <<srvModifierLists, srvObjects, phase, listed, i, batch, totalDeleted,
             attempt, delay, sbdResult>>
dlVars  == <<srvLocations, srvInactive, numberOfLocations, locationsToDelete,
             loc, retryCount>>
pgVars  == <<srvImages, cursor, images, fetches, imgIdx, deletedCount, errorCount>>
imVars  == <<categories, itemsPerCategory, modifierGroups, mappedCats, mappedMods,
             allItems, itemOffset, catState, itemState>>
gpVars  == <<count, limitQueue, downloadQueue, delaying, downloading, uploading,
             retryWaiting, fulfilledCount, rejectedCount>>
fsVars  == <<tempCleaned>>
upVars  == <<uuid>>
txVars  == <<srvTaxes, taxes>>
orVars  == <<srvLocs, locations, srvItems, itemIds, orderIdx, pending, ordersOk,
             ordersFailed, orderTaxes, cycle>>
unVars  == <<results, imageIds>>
sbVars  == <<retriesArg>>
bkVars  == <<itemCounts, grp, index, bulkPayload, batchPayload, generated>>
vars    == <<comVars, chVars, dcVars, dlVars, pgVars, imVars, gpVars, fsVars,
             upVars, txVars, orVars, bkVars, sbVars, unVars>>

\* What a script leaves alone: the variables of the other scripts.
notCh   == <<dcVars, dlVars, pgVars, imVars, gpVars, fsVars, upVars, txVars, orVars, bkVars, sbVars, unVars>>
notDC   == <<chVars, dlVars, pgVars, imVars, gpVars, fsVars, upVars, txVars, orVars, bkVars, sbVars, unVars>>
notDL   == <<chVars, dcVars, pgVars, imVars, gpVars, fsVars, upVars, txVars, orVars, bkVars, sbVars, unVars>>
notImFs == <<chVars, dcVars, dlVars, gpVars, upVars, txVars, orVars, bkVars, sbVars, unVars>>
notIm   == <<notImFs, fsVars>>
notPg   == <<chVars, dcVars, dlVars, imVars, gpVars, fsVars, upVars, txVars, orVars, bkVars, sbVars, unVars>>
notGpFs == <<chVars, dcVars, dlVars, pgVars, imVars, upVars, txVars, orVars, bkVars, sbVars, unVars>>
notGp   == <<notGpFs, fsVars>>
notUp   == <<chVars, dcVars, dlVars, pgVars, imVars, gpVars, fsVars, txVars, orVars, bkVars, sbVars, unVars>>
notTx   == <<chVars, dcVars, dlVars, pgVars, imVars, gpVars, fsVars, upVars, orVars, bkVars, sbVars, unVars>>
notUnFs == <<chVars, dcVars, dlVars, pgVars, imVars, gpVars, upVars, txVars, orVars,
             bkVars, sbVars>>
notBk   == <<chVars, dcVars, dlVars, pgVars, imVars, gpVars, fsVars, upVars, txVars,
             orVars, sbVars, unVars>>
notOr   == <<chVars, dcVars, dlVars, pgVars, imVars, gpVars, fsVars, upVars, txVars, bkVars, sbVars, unVars>>

(***************************************************************************)
(* Bounds of the model.                                                    *)
(***************************************************************************)
MaxLen        == 4    \* longest input list of the batching loop
MaxN          == 3    \* largest chunk size of the batching loop
BatchSize     == 2    \* scaled stand-in for the 1000 of delete-catalog.ts:62-63
PageLimit     == 5    \* most ids one listCatalog call returns
MaxObjects    == 6    \* most ITEM/CATEGORY/DISCOUNT objects in the catalog
MaxModifiers  == 2    \* most MODIFIER_LIST objects in the catalog
MaxLocations  == 2    \* most locations listLocations returns
MaxImages     == 5    \* most IMAGE objects in the catalog
PageSize      == 2    \* objects per page of a cursor-following listing
DiBatchSize   == 2    \* scaled stand-in for the batchSize = 10 of deleteAllImages
MaxCategories == 2    \* largest --categories
MaxItemsPerCategory == 2   \* largest --items-per-category
MaxItems      == 4    \* most items one import builds (categories * items per category)
MaxModifierGroups == 2     \* largest --modifier-groups
ItemBatchSize == 2    \* scaled stand-in for the batchSize = 500 / 2000 of the imports
MaxCount      == 12   \* largest --count of generate-images
MaxAttempts   == 4    \* calls of generateAndUploadImage followed for one image
MaxUnits      == 4    \* largest argv.count of generateImages followed unit by unit
MaxRetriesArg == 2    \* largest maxRetries passed to safeBatchDelete
MaxTaxes      == 6    \* most TAX objects in the catalog, above PageLimit
MaxGroups     == 2    \* entries of itemCounts
MaxGroupCount == 3    \* largest count of an entry of itemCounts
MaxObjsPerItem == 2   \* most objects generateItemObjects returns for one item
BulkLimit     == 3    \* scaled stand-in for the 100 objects that close a batch
BatchLimit    == 2    \* scaled stand-in for the 9 batches that trigger a request
MaxOrderTaxes == 1    \* most TAX objects in the catalog of the order scripts
MaxOrderItems == 6    \* most REGULAR items in the catalog
OrderBatchSize == 2   \* scaled stand-in for the BATCH_SIZE = 100 of generate-orders
MaxCycles     == 1    \* cycles of generate-orders followed after the first

(***************************************************************************)
(* Program constants.                                                      *)
(***************************************************************************)
maxRetries    == 5        \* safeBatchDelete(..., maxRetries = 5)
BaseDelay     == 10000    \* let delay = 10000
dlMaxRetries  == 3        \* deleteLocations: const maxRetries = 3
dlDelay       == 1000     \* deleteLocations: const delay = 1000

Statuses == {"200", "429", "500"}
Items    == {"a", "b"}

Min(a, b) == IF a < b THEN a ELSE b
Max(a, b) == IF a > b THEN a ELSE b
CeilDiv(m, n) == (m + n - 1) \div n

RECURSIVE Pow2(_)
Pow2(k) == IF k = 0 THEN 1 ELSE 2 * Pow2(k - 1)

RECURSIVE Flatten(_)
Flatten(ss) == IF ss = <<>> THEN <<>> ELSE Head(ss) \o Flatten(Tail(ss))

RECURSIVE SortedSeq(_)
SortedSeq(S) ==
    IF S = {} THEN <<>>
    ELSE LET m == CHOOSE x \in S : \A y \in S : x <= y
         IN  <<m>> \o SortedSeq(S \ {m})

Range(s) == {s[k] : k \in 1..Len(s)}

SeqsUpTo(S, n) == UNION {[1..k -> S] : k \in 0..n}

(***************************************************************************)
(* Array.prototype.slice(start, end) for 0 <= start: the elements at the   *)
(* 0-based positions start .. min(end, length) - 1.                        *)
(***************************************************************************)
SliceShort(a, start, end) == SubSeq(a, start + 1, Min(end, Len(a)) - 1)
Slice(a, start, end) == SubSeq(a, start + 1, Min(end, Len(a)))

\* i += N
NextOffsetSkip(o, n) == o + n + 1
NextOffset(o, n) == o + n

(***************************************************************************)
(* Idle values: the variables of the scripts that are not running.         *)
(***************************************************************************)
IdleCom == /\ exitCode = "none" /\ thrown = "none" /\ log = <<>> /\ waited = 0
IdleCh  == /\ L = <<>> /\ N = 1 /\ offset = 0 /\ chunks = <<>>
IdleDC  == /\ srvModifierLists = {} /\ srvObjects = {} /\ phase = "idle"
           /\ listed = <<>> /\ i = 0 /\ batch = <<>> /\ totalDeleted = 0
           /\ attempt = 0 /\ delay = 0 /\ sbdResult = "idle"
IdlePg  == /\ srvImages = 0 /\ cursor = 0 /\ images = <<>> /\ fetches = 0
           /\ imgIdx = 0 /\ deletedCount = 0 /\ errorCount = 0
IdleIm  == /\ categories = 0 /\ itemsPerCategory = 0 /\ modifierGroups = 0
           /\ mappedCats = {} /\ mappedMods = {} /\ allItems = <<>>
           /\ itemOffset = 0 /\ catState = <<>> /\ itemState = <<>>
IdleGp  == /\ count = 0 /\ limitQueue = 0 /\ downloadQueue = 0 /\ delaying = 0
           /\ downloading = 0 /\ uploading = 0 /\ retryWaiting = 0
           /\ fulfilledCount = 0 /\ rejectedCount = 0
IdleFs  == tempCleaned = FALSE
IdleUp  == uuid = 0
IdleTx  == srvTaxes = {} /\ taxes = <<>>
IdleOr  == /\ srvLocs = <<>> /\ locations = <<>> /\ srvItems = <<>> /\ itemIds = <<>>
           /\ orderIdx = 0 /\ pending = {} /\ ordersOk = 0 /\ ordersFailed = 0
           /\ orderTaxes = {} /\ cycle = 0
IdleUn  == results = <<>> /\ imageIds = <<>>
IdleSb  == retriesArg = maxRetries
IdleBk  == /\ itemCounts = <<>> /\ grp = 0 /\ index = 0 /\ bulkPayload = <<>>
           /\ batchPayload = <<>> /\ generated = <<>>
IdleDL  == /\ srvLocations = <<>> /\ srvInactive = {} /\ numberOfLocations = 1
           /\ locationsToDelete = <<>> /\ loc = 0 /\ retryCount = 0

(***************************************************************************)
(* The batching loop shared by deleteAllCatalogObjects, importCatalog and  *)
(* createCatalog, on an arbitrary list and chunk size.                     *)
(***************************************************************************)
InitBatching ==
    /\ script = "batching" /\ pc = "for" /\ IdleCom /\ IdleUn /\ IdleSb /\ IdleBk /\ IdleFs /\ IdleUp /\ IdleTx /\ IdleOr /\ IdleGp /\ IdleDC /\ IdleDL /\ IdlePg /\ IdleIm
    /\ L \in SeqsUpTo(Items, MaxLen)
    /\ N \in 1..MaxN
    /\ offset = 0
    /\ chunks = <<>>

BatchStep ==
    /\ script = "batching" /\ pc = "for"
    /\ offset < Len(L)
    /\ chunks' = Append(chunks, Slice(L, offset, offset + N))
    /\ offset' = NextOffset(offset, N)
    /\ UNCHANGED <<comVars, L, N, notCh>>

BatchExit ==
    /\ script = "batching" /\ pc = "for"
    /\ ~(offset < Len(L))
    /\ pc' = "done"
    /\ UNCHANGED <<script, exitCode, thrown, log, waited, chVars, notCh>>

NextBatching == BatchStep \/ BatchExit
SpecBatching == InitBatching /\ [][NextBatching]_vars

(***************************************************************************)
(* C1: at every point of the batching loop the chunks produced so far,     *)
(* concatenated in order, are exactly the part of L the loop has passed,   *)
(* so that when the loop ends they reproduce L: nothing is duplicated and  *)
(* nothing is dropped.                                                     *)
(***************************************************************************)
C1_ChunksReproduceInput ==
    script = "batching" =>
        /\ Flatten(chunks) = SubSeq(L, 1, Min(offset, Len(L)))
        /\ (pc = "done" => Flatten(chunks) = L)

C1_Witness ==
    /\ script = "batching" /\ pc = "done"
    /\ Len(chunks) >= 2
    /\ Len(L) % N # 0
    /\ \E j, k \in 1..Len(L) : j # k /\ L[j] = L[k]

(***************************************************************************)
(* delete-catalog.ts                                                       *)
(*                                                                         *)
(* The server holds the ids 1..m of the MODIFIER_LIST objects and 1..n of  *)
(* the ITEM/CATEGORY/DISCOUNT objects.  listCatalogIds passes no cursor,   *)
(* so a listing is the first page of what the server holds.                *)
(***************************************************************************)
ListPage(S) == SubSeq(SortedSeq(S), 1, Min(PageLimit, Cardinality(S)))

Call(op, ids, r) == [op |-> op, ids |-> ids, status |-> r]

\* while (attempt <= maxRetries)
LoopTest(att) == att <= retriesArg

\* error.statusCode === 429 && attempt < maxRetries
RetryAnyError(r, att) == att < retriesArg
RetryAllowedInclusive(r, att) == r = "429" /\ att <= retriesArg
RetryAllowed(r, att) == r = "429" /\ att < retriesArg

\* do { ... } while (listed.length > 0)
ListedOnce(ls) == FALSE
WhileListed(ls) == Len(ls) > 0

\* delay *= 2
NextDelayLinear(d) == d + BaseDelay
NextDelay(d) == d * 2

InitDeleteCatalogCalls ==
    /\ script = "delete-catalog" /\ pc = "dm_list" /\ IdleCom /\ IdleUn /\ IdleBk /\ IdleFs /\ IdleUp /\ IdleTx /\ IdleOr /\ IdleGp /\ IdleCh /\ IdleDL /\ IdlePg /\ IdleIm
    /\ \E m \in 0..MaxModifiers : srvModifierLists = 1..m
    /\ \E n \in 0..MaxObjects : srvObjects = 1..n
    /\ phase = "modifiers"
    /\ listed = <<>> /\ i = 0 /\ batch = <<>> /\ totalDeleted = 0
    /\ attempt = 0 /\ delay = 0 /\ sbdResult = "idle"

\* the script as it is: safeBatchDelete is called with its default maxRetries = 5
InitDeleteCatalog == InitDeleteCatalogCalls /\ IdleSb

\* the script with safeBatchDelete called with any maxRetries >= 0
InitDeleteCatalogAnyRetries ==
    InitDeleteCatalogCalls /\ retriesArg \in 0..MaxRetriesArg

\* deleteCatalog: catch (error) { console.error(...); process.exit(1); }
DC_SkipChunk(e) ==
    /\ pc' = IF phase = "modifiers" THEN "dm_list" ELSE "do_list"
    /\ exitCode' = exitCode
    /\ thrown' = e
DC_Catch(e) ==
    /\ pc' = "exit"
    /\ exitCode' = "1"
    /\ thrown' = e

\* listed = await catalogClient.listCatalogIds(['MODIFIER_LIST'])
DC_ListModifiers(r) ==
    /\ script = "delete-catalog" /\ pc = "dm_list"
    /\ IF r = "200"
       THEN /\ listed' = ListPage(srvModifierLists)
            /\ log' = <<Call("list", listed', r)>>
            /\ i' = 0
            /\ IF Len(listed') > 0
               THEN /\ pc' = "dm_for"
                    /\ UNCHANGED <<phase, totalDeleted>>
               ELSE /\ pc' = "do_list"
                    /\ phase' = "objects"
                    /\ totalDeleted' = 0
            /\ UNCHANGED <<exitCode, thrown>>
       ELSE /\ log' = <<Call("list", <<>>, r)>>
            /\ DC_Catch(r)
            /\ UNCHANGED <<listed, i, phase, totalDeleted>>
    /\ UNCHANGED <<script, waited, notDC, srvModifierLists, srvObjects,
                   batch, attempt, delay, sbdResult>>

\* for (const id of listed) { await safeBatchDelete(catalogClient, [id]); ... }
DC_ModifierFor ==
    /\ script = "delete-catalog" /\ pc = "dm_for"
    /\ IF i < Len(listed)
       THEN /\ batch' = <<listed[i + 1]>>
            /\ attempt' = 0
            /\ delay' = BaseDelay
            /\ waited' = 0
            /\ sbdResult' = "running"
            /\ pc' = "sbd_call"
            /\ UNCHANGED <<phase, totalDeleted>>
       ELSE /\ IF WhileListed(listed)
               THEN /\ pc' = "dm_list"
                    /\ UNCHANGED <<phase, totalDeleted>>
               ELSE /\ pc' = "do_list"
                    /\ phase' = "objects"
                    /\ totalDeleted' = 0
            /\ UNCHANGED <<batch, attempt, delay, waited, sbdResult>>
    /\ UNCHANGED <<script, exitCode, thrown, log, notDC,
                   srvModifierLists, srvObjects, listed, i>>

\* listed = await catalogClient.listCatalogIds(['ITEM', 'CATEGORY', 'DISCOUNT'])
DC_ListObjects(r) ==
    /\ script = "delete-catalog" /\ pc = "do_list"
    /\ IF r = "200"
       THEN /\ listed' = ListPage(srvObjects)
            /\ log' = <<Call("list", listed', r)>>
            /\ i' = 0
            /\ IF Len(listed') > 0
               THEN /\ pc' = "do_for"
                    /\ UNCHANGED exitCode
               ELSE /\ pc' = "done"
                    /\ exitCode' = "0"
            /\ UNCHANGED thrown
       ELSE /\ log' = <<Call("list", <<>>, r)>>
            /\ DC_Catch(r)
            /\ UNCHANGED <<listed, i>>
    /\ UNCHANGED <<script, waited, notDC, srvModifierLists, srvObjects,
                   phase, batch, totalDeleted, attempt, delay, sbdResult>>

\* for (let i = 0; i < listed.length; i += 1000) {
\*     const batch = listed.slice(i, i + 1000); await safeBatchDelete(..., batch);
DC_ObjectsFor ==
    /\ script = "delete-catalog" /\ pc = "do_for"
    /\ IF i < Len(listed)
       THEN /\ batch' = Slice(listed, i, i + BatchSize)
            /\ attempt' = 0
            /\ delay' = BaseDelay
            /\ waited' = 0
            /\ sbdResult' = "running"
            /\ pc' = "sbd_call"
            /\ UNCHANGED exitCode
       ELSE /\ IF WhileListed(listed)
               THEN pc' = "do_list" /\ UNCHANGED exitCode
               ELSE pc' = "done" /\ exitCode' = "0"
            /\ UNCHANGED <<batch, attempt, delay, waited, sbdResult>>
    /\ UNCHANGED <<script, thrown, log, notDC,
                   srvModifierLists, srvObjects, phase, listed, i, totalDeleted>>

\* safeBatchDelete: one pass of the try / catch in the while loop, up to the
\* return, the setTimeout or the throw.
SBD_Attempt(r) ==
    /\ script = "delete-catalog" /\ pc = "sbd_call"
    /\ log' = Append(log, Call("delete", batch, r))
    /\ IF r = "200"
       THEN /\ sbdResult' = "returned"
            /\ IF phase = "modifiers"
               THEN /\ srvModifierLists' = srvModifierLists \ Range(batch)
                    /\ totalDeleted' = totalDeleted + 1
                    /\ i' = i + 1
                    /\ pc' = "dm_for"
                    /\ UNCHANGED srvObjects
               ELSE /\ srvObjects' = srvObjects \ Range(batch)
                    /\ totalDeleted' = totalDeleted + Len(batch)
                    /\ i' = NextOffset(i, BatchSize)
                    /\ pc' = "do_for"
                    /\ UNCHANGED srvModifierLists
            /\ UNCHANGED <<exitCode, thrown>>
       ELSE /\ IF RetryAllowed(r, attempt)
               THEN /\ pc' = "sbd_backoff"
                    /\ UNCHANGED <<exitCode, thrown, sbdResult>>
               ELSE /\ sbdResult' = "thrown"
                    /\ DC_Catch(r)
            /\ UNCHANGED <<srvModifierLists, srvObjects, totalDeleted, i>>
    /\ UNCHANGED <<script, waited, notDC, phase, listed, batch,
                   attempt, delay>>

\* await new Promise(res => setTimeout(res, delay)); attempt++; delay *= 2;
\* then the loop test, and the throw after the loop when it fails.
SBD_Backoff ==
    /\ script = "delete-catalog" /\ pc = "sbd_backoff"
    /\ waited' = waited + delay
    /\ attempt' = attempt + 1
    /\ delay' = NextDelay(delay)
    /\ IF LoopTest(attempt')
       THEN /\ pc' = "sbd_call"
            /\ UNCHANGED <<exitCode, thrown, sbdResult>>
       ELSE /\ sbdResult' = "thrown"
            /\ DC_Catch("Max retries reached for batchDeleteCatalogObjects")
    /\ UNCHANGED <<script, log, notDC, srvModifierLists, srvObjects,
                   phase, listed, i, batch, totalDeleted>>

NextDeleteCatalog ==
    \/ \E r \in Statuses : DC_ListModifiers(r)
    \/ DC_ModifierFor
    \/ \E r \in Statuses : DC_ListObjects(r)
    \/ DC_ObjectsFor
    \/ \E r \in Statuses : SBD_Attempt(r)
    \/ SBD_Backoff

SpecDeleteCatalog == InitDeleteCatalog /\ [][NextDeleteCatalog]_vars

SpecDeleteCatalogAnyRetries ==
    InitDeleteCatalogAnyRetries /\ [][NextDeleteCatalog]_vars

\* delete-catalog against a server that answers every call without an error;
\* the script is not suspended for ever between two steps.
NextDeleteCatalogNoError ==
    \/ DC_ListModifiers("200")
    \/ DC_ModifierFor
    \/ DC_ListObjects("200")
    \/ DC_ObjectsFor
    \/ SBD_Attempt("200")

SpecDeleteCatalogNoError ==
    /\ InitDeleteCatalog
    /\ [][NextDeleteCatalogNoError]_vars
    /\ WF_vars(NextDeleteCatalogNoError)

(***************************************************************************)
(* What the log says about the delete calls of the current listing.        *)
(***************************************************************************)
IsDelete(e)  == e.op = "delete"
Deletes      == SelectSeq(log, IsDelete)
LastCall     == log[Len(log)]
AttemptsOf(b) == Cardinality({k \in 1..Len(log) : IsDelete(log[k]) /\ log[k].ids = b})
Count429Of(b) ==
    Cardinality({k \in 1..Len(log) :
                    IsDelete(log[k]) /\ log[k].ids = b /\ log[k].status = "429"})

RECURSIVE Collapse(_)
Collapse(s) ==
    IF Len(s) <= 1 THEN s
    ELSE IF s[1] = s[2] THEN Collapse(Tail(s))
         ELSE <<s[1]>> \o Collapse(Tail(s))

SubmittedChunks == Collapse([k \in 1..Len(Deletes) |-> Deletes[k].ids])

\* The loop of deleteAllCatalogObjects on a list a with chunk size n.
RECURSIVE ChunksFrom(_, _, _)
ChunksFrom(a, o, n) ==
    IF o < Len(a)
    THEN <<Slice(a, o, o + n)>> \o ChunksFrom(a, NextOffset(o, n), n)
    ELSE <<>>

Scenario2500 ==
    LET cs == ChunksFrom([k \in 1..2500 |-> k], 0, 1000)
    IN  [j \in 1..Len(cs) |-> Len(cs[j])]

(***************************************************************************)
(* C2: in the objects phase of delete-catalog, for a listing of M ids and  *)
(* chunk size N the chunks submitted are, in list order, the first chunks  *)
(* of the listing cut at N, 2N, ...: each of size N but the last, which    *)
(* has M - (ceil(M/N) - 1) * N; all ceil(M/N) of them have been submitted  *)
(* when the loop over the listing ends; an attempt that failed is followed *)
(* only by an attempt of the same chunk, and a chunk is left only after    *)
(* its successful attempt.  With the source's numbers, 2500 ids and chunk  *)
(* size 1000 give sizes 1000, 1000, 500.                                   *)
(***************************************************************************)
C2_ChunksInOrder ==
    (script = "delete-catalog" /\ phase = "objects" /\ Len(log) > 0) =>
        LET M  == Len(listed)
            nc == CeilDiv(M, BatchSize)
            c  == SubmittedChunks
            d  == Deletes
        IN  /\ Len(c) <= nc
            /\ \A j \in 1..Len(c) :
                  /\ c[j] = SubSeq(listed, (j - 1) * BatchSize + 1,
                                   Min(j * BatchSize, M))
                  /\ Len(c[j]) = IF j < nc THEN BatchSize
                                 ELSE M - (nc - 1) * BatchSize
            /\ \A k \in 1..(Len(d) - 1) :
                  IF d[k].status = "200"
                  THEN d[k + 1].ids # d[k].ids
                  ELSE d[k + 1].ids = d[k].ids
            /\ (pc = "do_for" /\ ~(i < M)) =>
                  (Len(c) = nc /\ d[Len(d)].status = "200")
            /\ Scenario2500 = <<1000, 1000, 500>>

C2_Witness ==
    /\ script = "delete-catalog" /\ phase = "objects"
    /\ pc = "do_for" /\ ~(i < Len(listed))
    /\ Len(listed) = 2 * BatchSize + 1
    /\ Len(SubmittedChunks) = 3
    /\ Len(Deletes) > 4

(***************************************************************************)
(* C3: a safeBatchDelete call whose chunk is answered 429 k times and then *)
(* 200 returns successfully (k can be anything up to maxRetries), and the  *)
(* time it slept is BaseDelay * (2^k - 1): the delay starts at BaseDelay   *)
(* and doubles on each retry of the chunk.                                 *)
(***************************************************************************)
C3_BackoffSum ==
    script = "delete-catalog" =>
        /\ (sbdResult = "running" /\ pc = "sbd_call") =>
              /\ delay = BaseDelay * Pow2(attempt)
              /\ attempt = Count429Of(batch)
        /\ (Len(log) > 0 /\ LastCall = Call("delete", batch, "200")) =>
              LET k == Count429Of(batch)
              IN  /\ sbdResult = "returned"
                  /\ exitCode # "1" /\ thrown = "none"
                  /\ k <= maxRetries
                  /\ waited = BaseDelay * (Pow2(k) - 1)

C3_Witness ==
    /\ script = "delete-catalog"
    /\ Len(log) > 0 /\ LastCall = Call("delete", batch, "200")
    /\ Count429Of(batch) = 3
    /\ waited = 70000
    /\ sbdResult = "returned"

(***************************************************************************)
(* C4: a chunk answered 429 on every attempt is attempted maxRetries + 1   *)
(* times (one attempt and maxRetries retries); the last 429 is raised to   *)
(* the caller at once, after BaseDelay * (2^maxRetries - 1) of sleep in    *)
(* all, and afterwards no call is made and no delay is waited.             *)
(***************************************************************************)
C4_ExhaustedState ==
    script = "delete-catalog" =>
        /\ \A k \in 1..Len(log) : AttemptsOf(log[k].ids) <= maxRetries + 1
        /\ (Len(log) > 0 /\ IsDelete(LastCall)
              /\ Count429Of(LastCall.ids) = maxRetries + 1) =>
              /\ sbdResult = "thrown" /\ thrown = "429"
              /\ AttemptsOf(LastCall.ids) = maxRetries + 1
              /\ waited = BaseDelay * (Pow2(maxRetries) - 1)
        /\ (sbdResult = "thrown" /\ thrown = "429") =>
              /\ Count429Of(batch) = maxRetries + 1
              /\ LastCall = Call("delete", batch, "429")

C4_TerminalAfterExhaustion ==
    /\ []C4_ExhaustedState
    /\ [][sbdResult = "thrown" => (log' = log /\ waited' = waited)]_vars

C4_Witness ==
    /\ script = "delete-catalog"
    /\ sbdResult = "thrown" /\ thrown = "429"
    /\ AttemptsOf(batch) = maxRetries + 1
    /\ waited = 310000

(***************************************************************************)
(* C6: in delete-catalog a chunk whose safeBatchDelete call throws (the    *)
(* retry budget is used up, or the error is not a 429) ends the run: the   *)
(* script exits with code 1, the failed attempt is the last remote call    *)
(* (no later chunk, no further listing), and the chunk was not skipped:    *)
(* the loop has not moved past it and the server still holds its ids.      *)
(***************************************************************************)
C6_FailedState ==
    (script = "delete-catalog" /\ sbdResult = "thrown") =>
        /\ pc = "exit" /\ exitCode = "1" /\ thrown # "none"
        /\ IsDelete(LastCall) /\ LastCall.ids = batch /\ LastCall.status # "200"
        /\ IF phase = "modifiers"
           THEN batch = <<listed[i + 1]>> /\ Range(batch) \subseteq srvModifierLists
           ELSE /\ batch = SubSeq(listed, i + 1, Min(i + BatchSize, Len(listed)))
                /\ Range(batch) \subseteq srvObjects

C6_FailFast ==
    /\ []C6_FailedState
    /\ []((script = "delete-catalog" /\ exitCode = "0") => thrown = "none")
    /\ [][(script = "delete-catalog" /\ thrown # "none") => UNCHANGED vars]_vars

C6_Witness ==
    /\ script = "delete-catalog" /\ sbdResult = "thrown" /\ exitCode = "1"
    /\ phase = "objects" /\ i > 0 /\ i + BatchSize < Len(listed)

(***************************************************************************)
(* delete-locations.ts                                                     *)
(***************************************************************************)
\* error.statusCode === 429 && retryCount < maxRetries
DL_RetryAllowed(r, rc) == r = "429" /\ rc < dlMaxRetries

\* while (retryCount < maxRetries)
DL_LoopTest(rc) == rc < dlMaxRetries

InitDeleteLocations ==
    /\ script = "delete-locations" /\ pc = "dl_list" /\ IdleCom /\ IdleUn /\ IdleSb /\ IdleBk /\ IdleFs /\ IdleUp /\ IdleTx /\ IdleOr /\ IdleGp /\ IdleCh /\ IdleDC /\ IdlePg /\ IdleIm
    /\ \E n \in 0..MaxLocations :
          srvLocations \in {s \in [1..n -> 0..n] : \A k \in 1..n : s[k] \in {0, k}}
    /\ srvInactive = {}
    /\ numberOfLocations \in 1..MaxLocations
    /\ locationsToDelete = <<>> /\ loc = 0 /\ retryCount = 0

\* deleteLocations: catch (error) { console.error('Error deleting locations:', error); }
\* after which the script has nothing left to run and ends with code 0.
DL_Catch(e) ==
    /\ pc' = "done"
    /\ exitCode' = "0"
    /\ thrown' = e

\* const response = await client.locationsApi.listLocations();
\* const locationsToDelete = (response.result.locations || []).slice(0, numberOfLocations);
DL_List(r) ==
    /\ script = "delete-locations" /\ pc = "dl_list"
    /\ IF r = "200"
       THEN /\ locationsToDelete' = Slice(srvLocations, 0, numberOfLocations)
            /\ log' = <<Call("list", locationsToDelete', r)>>
            /\ pc' = "dl_for"
            /\ UNCHANGED <<exitCode, thrown>>
       ELSE /\ log' = <<Call("list", <<>>, r)>>
            /\ DL_Catch(r)
            /\ UNCHANGED locationsToDelete
    /\ UNCHANGED <<script, waited, notDL, srvLocations, srvInactive,
                   numberOfLocations, loc, retryCount>>

\* for (const location of locationsToDelete) { if (location.id) { let retryCount = 0; ...
DL_For ==
    /\ script = "delete-locations" /\ pc = "dl_for"
    /\ IF loc < Len(locationsToDelete)
       THEN IF locationsToDelete[loc + 1] # 0
            THEN /\ retryCount' = 0
                 /\ waited' = 0
                 /\ pc' = "dl_call"
                 /\ UNCHANGED <<loc, exitCode>>
            ELSE /\ loc' = loc + 1
                 /\ UNCHANGED <<pc, retryCount, waited, exitCode>>
       ELSE /\ pc' = "done"
            /\ exitCode' = "0"
            /\ UNCHANGED <<loc, retryCount, waited>>
    /\ UNCHANGED <<script, thrown, log, notDL, srvLocations, srvInactive,
                   numberOfLocations, locationsToDelete>>

\* try { await client.locationsApi.updateLocation(...); break; } catch (error) { ... }
DL_Update(r) ==
    /\ script = "delete-locations" /\ pc = "dl_call"
    /\ log' = Append(log, Call("update", <<locationsToDelete[loc + 1]>>, r))
    /\ IF r = "200"
       THEN /\ srvInactive' = srvInactive \cup {locationsToDelete[loc + 1]}
            /\ loc' = loc + 1
            /\ pc' = "dl_for"
            /\ UNCHANGED <<exitCode, thrown>>
       ELSE /\ IF DL_RetryAllowed(r, retryCount)
               THEN /\ pc' = "dl_backoff"
                    /\ UNCHANGED <<exitCode, thrown>>
               ELSE DL_Catch(r)
            /\ UNCHANGED <<srvInactive, loc>>
    /\ UNCHANGED <<script, waited, notDL, srvLocations, numberOfLocations,
                   locationsToDelete, retryCount>>

\* await new Promise(resolve => setTimeout(resolve, delay)); retryCount++;
\* then the loop test; when it fails the for-of loop goes on to the next location.
DL_Backoff ==
    /\ script = "delete-locations" /\ pc = "dl_backoff"
    /\ waited' = waited + dlDelay
    /\ retryCount' = retryCount + 1
    /\ IF DL_LoopTest(retryCount')
       THEN /\ pc' = "dl_call"
            /\ UNCHANGED loc
       ELSE /\ pc' = "dl_for"
            /\ loc' = loc + 1
    /\ UNCHANGED <<script, exitCode, thrown, log, notDL, srvLocations, srvInactive,
                   numberOfLocations, locationsToDelete>>

NextDeleteLocations ==
    \/ \E r \in Statuses : DL_List(r)
    \/ DL_For
    \/ \E r \in Statuses : DL_Update(r)
    \/ DL_Backoff

SpecDeleteLocations == InitDeleteLocations /\ [][NextDeleteLocations]_vars

\* The two scripts with a retry loop around a remote call.
SpecRetry ==
    /\ InitDeleteCatalog \/ InitDeleteLocations
    /\ [][NextDeleteCatalog \/ NextDeleteLocations]_vars

(***************************************************************************)
(* C5: a delete (safeBatchDelete) or a location update (deleteLocations)   *)
(* that fails with a status other than 429 is not retried: the error is    *)
(* thrown out of the retry loop at once and ends the run, so it is the     *)
(* last remote call and no delay follows it; when it is the first attempt  *)
(* of its chunk or location, that was the only attempt and nothing was     *)
(* waited.                                                                 *)
(***************************************************************************)
IsSubmission(e) == e.op \in {"delete", "update"}

C5_NotRetriedState ==
    (script \in {"delete-catalog", "delete-locations"} /\ Len(log) > 0
        /\ IsSubmission(LastCall) /\ LastCall.status = "500") =>
        /\ thrown = "500"
        /\ pc \in {"exit", "done"}
        /\ Cardinality({k \in 1..Len(log) : log[k].status = "500"}) = 1
        /\ Cardinality({k \in 1..Len(log) : log[k] = LastCall}) = 1
        /\ (Cardinality({k \in 1..Len(log) : log[k].ids = LastCall.ids
                                              /\ log[k].op = LastCall.op}) = 1
              => waited = 0)

C5_NonRateLimitNotRetried ==
    /\ []C5_NotRetriedState
    /\ [][(thrown = "500") => (log' = log /\ waited' = waited)]_vars

C5_Witness ==
    /\ script = "delete-locations"
    /\ Len(log) = 3 /\ LastCall.op = "update" /\ LastCall.status = "500"
    /\ log[2].status = "200"
    /\ thrown = "500" /\ waited = 0

C5_WitnessDeleteCatalog ==
    /\ script = "delete-catalog" /\ phase = "objects"
    /\ Len(log) = 2 /\ LastCall = Call("delete", batch, "500")
    /\ thrown = "500" /\ waited = 0 /\ exitCode = "1"

(***************************************************************************)
(* fetchAllImages: the cursor-following loop of delete-images.ts and of    *)
(* create-catalog-with-images.ts.  The server holds the images 1..M and    *)
(* serves them in pages of PageSize, with a cursor while more remain.      *)
(***************************************************************************)
PageObjects(c) == [k \in 1..Min(PageSize, srvImages - c) |-> c + k]
PageCursor(c)  == IF c + PageSize < srvImages THEN c + PageSize ELSE 0

\* images = images.concat(response.result.objects) / imageIds.push(...)
AccumulateOverwrite(acc, page) == page
Accumulate(acc, page) == acc \o page

\* while (cursor)
FollowCursor(cur) == cur # 0

InitFetch ==
    /\ pc = "fetch" /\ IdleCom /\ IdleUn /\ IdleSb /\ IdleBk /\ IdleFs /\ IdleUp /\ IdleTx /\ IdleOr /\ IdleGp /\ IdleCh /\ IdleDC /\ IdleDL
    /\ srvImages \in 0..MaxImages
    /\ cursor = 0 /\ images = <<>> /\ fetches = 0
    /\ imgIdx = 0 /\ deletedCount = 0 /\ errorCount = 0

(***************************************************************************)
(* delete-images.ts                                                        *)
(***************************************************************************)
InitDeleteImages ==
    /\ script = "delete-images" /\ InitFetch /\ IdleIm

\* deleteAllImages: catch (error) { console.error(...); process.exit(1); }
DI_Catch(e) ==
    /\ pc' = "exit"
    /\ exitCode' = "1"
    /\ thrown' = e

\* One pass of the do-while of fetchAllImages; when the cursor is absent the
\* function returns and deleteAllImages goes on to its first delete.
DI_FetchPage(r) ==
    /\ script = "delete-images" /\ pc = "fetch"
    /\ fetches' = fetches + 1
    /\ IF r = "200"
       THEN /\ images' = Accumulate(images, PageObjects(cursor))
            /\ cursor' = PageCursor(cursor)
            /\ IF FollowCursor(cursor')
               THEN pc' = "fetch" /\ UNCHANGED exitCode
               ELSE IF Len(images') > 0
                    THEN pc' = "di_delete" /\ UNCHANGED exitCode
                    ELSE pc' = "done" /\ exitCode' = "0"
            /\ UNCHANGED thrown
       ELSE /\ DI_Catch(r)
            /\ UNCHANGED <<images, cursor>>
    /\ UNCHANGED <<script, log, waited, notPg, srvImages, imgIdx, deletedCount,
                   errorCount>>

\* catch (error) { errorCount++; console.error(...); }
ErrorNotCounted(ec) == ec
ErrorCounted(ec) == ec + 1

\* try { await deleteCatalogObject(image.id); deletedCount++; } catch { errorCount++; }
DI_Delete(r) ==
    /\ script = "delete-images" /\ pc = "di_delete"
    /\ log' = Append(log, Call("delete", <<images[imgIdx + 1]>>, r))
    /\ IF r = "200"
       THEN deletedCount' = deletedCount + 1 /\ UNCHANGED errorCount
       ELSE errorCount' = ErrorCounted(errorCount) /\ UNCHANGED deletedCount
    /\ imgIdx' = imgIdx + 1
    /\ IF imgIdx' % DiBatchSize = 0 \/ imgIdx' = Len(images)
       THEN IF imgIdx' < Len(images)
            THEN pc' = "di_delay" /\ UNCHANGED exitCode
            ELSE pc' = "done" /\ exitCode' = "0"
       ELSE UNCHANGED <<pc, exitCode>>
    /\ UNCHANGED <<script, thrown, waited, notPg, srvImages, cursor, images, fetches>>

\* await new Promise(resolve => setTimeout(resolve, 1000)) between batches
DI_BatchDelay ==
    /\ script = "delete-images" /\ pc = "di_delay"
    /\ pc' = "di_delete"
    /\ UNCHANGED <<script, exitCode, thrown, log, waited, notPg, pgVars>>

NextDeleteImages ==
    \/ \E r \in Statuses : DI_FetchPage(r)
    \/ \E r \in Statuses : DI_Delete(r)
    \/ DI_BatchDelay

SpecDeleteImages == InitDeleteImages /\ [][NextDeleteImages]_vars

(***************************************************************************)
(* The import scripts: import-catalog (order-data-generator.ts:346-526),   *)
(* create-catalog-with-images and import-catalog-with-images.              *)
(*                                                                         *)
(* A catalog id is Ref(real, k): the server-assigned id of placeholder k   *)
(* when real, the client placeholder "#Category<k>" / "#ModifierList<k>"   *)
(* itself otherwise.  The first upsert's idMappings resolve the            *)
(* placeholders in mappedCats and mappedMods.                              *)
(***************************************************************************)
Ref(real, k) == [real |-> real, k |-> k]
ItemRec(n, cat, mod) == [n |-> n, cat |-> cat, mod |-> mod]

ImportScripts ==
    {"import-catalog", "create-catalog-with-images", "import-catalog-with-images"}

\* categoryIndex (1-based) of item number n = categoryIndex0 * items + itemIndex0 + 1
CategoryOf(n, items) == ((n - 1) \div items) + 1

\* await catalogClient.batchUpsertItemObjects([{ objects: firstBatch }]) resolves
FirstBatchIgnoresError(r) == TRUE
FirstBatchSucceeded(r) == r = "200"

\* catch (error) { ...; process.exit(1); } of importCatalog / createCatalog
IM_Catch(e) ==
    /\ pc' = "exit"
    /\ exitCode' = "1"
    /\ thrown' = e

\* const batch = allItems.slice(i, i + batchSize); batchUpsertItemObjects([{ objects: batch }])
SendChunk(items, off) ==
    Call("send-items", Slice(items, off, off + ItemBatchSize), "sent")
RespChunk(items, off, r) ==
    Call("resp-items", Slice(items, off, off + ItemBatchSize), r)

\* argv.categories, argv['items-per-category'] (argv.items), argv['modifier-groups']
ImportArgs ==
    /\ categories \in 1..MaxCategories
    /\ itemsPerCategory \in 0..MaxItemsPerCategory
    /\ categories * itemsPerCategory <= MaxItems
    /\ modifierGroups \in 1..MaxModifierGroups

------------------------------------------------------------------------------
(* import-catalog *)

\* categoryIdMap[cat.id] = mapping.objectId, else cat.id; categoryIdMap[id] || id
IC_RealCategoryId(mc, c) == IF c \in mc THEN Ref(TRUE, c) ELSE Ref(FALSE, c)

\* modifierListIdMap[group.id] = mapping.objectId, else group.id
IC_RealModifierListId(mm, g) == IF g \in mm THEN Ref(TRUE, g) ELSE Ref(FALSE, g)

\* The two nested loops that fill allItems; f[n] is the random modifier list of item n.
IC_BuildItems(mc, mm, f) ==
    [n \in 1..(categories * itemsPerCategory) |->
        ItemRec(n, IC_RealCategoryId(mc, CategoryOf(n, itemsPerCategory)),
                   IC_RealModifierListId(mm, f[n]))]

InitImportCatalog ==
    /\ script = "import-catalog" /\ pc = "start"
    /\ IdleCom /\ IdleUn /\ IdleSb /\ IdleBk /\ IdleFs /\ IdleUp /\ IdleTx /\ IdleOr /\ IdleGp /\ IdleCh /\ IdleDC /\ IdleDL /\ IdlePg
    /\ ImportArgs
    /\ mappedCats = {} /\ mappedMods = {} /\ allItems = <<>> /\ itemOffset = 0
    /\ catState = <<>> /\ itemState = <<>>

\* up to: const firstBatchResponse = await catalogClient.batchUpsertItemObjects(...)
IC_Start ==
    /\ script = "import-catalog" /\ pc = "start"
    /\ log' = <<Call("send-first", <<>>, "sent")>>
    /\ pc' = "await_first"
    /\ UNCHANGED <<script, exitCode, thrown, waited, notIm, pgVars, imVars>>

\* The first upsert resolves, its idMappings resolving any subset of the
\* placeholders; the id maps and allItems are built and the first batch of
\* items is sent (or, with no item, the verification listing).
IC_FirstResponse(r) ==
    /\ script = "import-catalog" /\ pc = "await_first"
    /\ IF FirstBatchSucceeded(r)
       THEN /\ mappedCats' \in SUBSET (1..categories)
            /\ mappedMods' \in SUBSET (1..modifierGroups)
            /\ \E f \in [1..(categories * itemsPerCategory) -> 1..modifierGroups] :
                  allItems' = IC_BuildItems(mappedCats', mappedMods', f)
            /\ itemOffset' = 0
            /\ IF 0 < Len(allItems')
               THEN /\ log' = log \o <<Call("resp-first", <<>>, r),
                                      SendChunk(allItems', 0)>>
                    /\ pc' = "await_chunk"
               ELSE /\ log' = log \o <<Call("resp-first", <<>>, r),
                                      Call("send-verify", <<>>, "sent")>>
                    /\ pc' = "await_verify"
            /\ UNCHANGED <<exitCode, thrown>>
       ELSE /\ log' = Append(log, Call("resp-first", <<>>, r))
            /\ IM_Catch(r)
            /\ UNCHANGED <<mappedCats, mappedMods, allItems, itemOffset>>
    /\ UNCHANGED <<script, waited, notIm, pgVars, categories, itemsPerCategory,
                   modifierGroups, catState, itemState>>

\* await catalogClient.batchUpsertItemObjects([{ objects: batch }]) resolves
IC_ChunkResponse(r) ==
    /\ script = "import-catalog" /\ pc = "await_chunk"
    /\ IF r = "200"
       THEN IF itemOffset + ItemBatchSize < Len(allItems)
            THEN /\ log' = Append(log, RespChunk(allItems, itemOffset, r))
                 /\ pc' = "chunk_delay"
                 /\ UNCHANGED <<itemOffset, exitCode, thrown>>
            ELSE /\ log' = log \o <<RespChunk(allItems, itemOffset, r),
                                   Call("send-verify", <<>>, "sent")>>
                 /\ itemOffset' = NextOffset(itemOffset, ItemBatchSize)
                 /\ pc' = "await_verify"
                 /\ UNCHANGED <<exitCode, thrown>>
       ELSE /\ log' = Append(log, RespChunk(allItems, itemOffset, r))
            /\ IM_Catch(r)
            /\ UNCHANGED itemOffset
    /\ UNCHANGED <<script, waited, notIm, pgVars, categories, itemsPerCategory,
                   modifierGroups, mappedCats, mappedMods, allItems, catState,
                   itemState>>

\* the 1 s delay between batches, then i += batchSize and the next batch is sent
IC_ChunkDelay ==
    /\ script = "import-catalog" /\ pc = "chunk_delay"
    /\ itemOffset' = NextOffset(itemOffset, ItemBatchSize)
    /\ log' = Append(log, SendChunk(allItems, itemOffset'))
    /\ pc' = "await_chunk"
    /\ UNCHANGED <<script, exitCode, thrown, waited, notIm, pgVars, categories,
                   itemsPerCategory, modifierGroups, mappedCats, mappedMods,
                   allItems, catState, itemState>>

\* const response = await catalogClient.listCatalog(); ... verification counts
IC_VerifyResponse(r) ==
    /\ script = "import-catalog" /\ pc = "await_verify"
    /\ log' = Append(log, Call("resp-verify", <<>>, r))
    /\ IF r = "200"
       THEN pc' = "done" /\ exitCode' = "0" /\ UNCHANGED thrown
       ELSE IM_Catch(r)
    /\ UNCHANGED <<script, waited, notIm, pgVars, imVars>>

NextImportCatalog ==
    \/ IC_Start
    \/ \E r \in Statuses : IC_FirstResponse(r)
    \/ \E r \in Statuses : IC_ChunkResponse(r)
    \/ IC_ChunkDelay
    \/ \E r \in Statuses : IC_VerifyResponse(r)

SpecImportCatalog == InitImportCatalog /\ [][NextImportCatalog]_vars

------------------------------------------------------------------------------
(* create-catalog-with-images *)

\* modifierGroups.map(group => mapping?.objectId).filter(Boolean)
ModifierListIdMappingsWithFallback(mm) ==
    [g \in 1..modifierGroups |-> Ref(g \in mm, g)]
ModifierListIdMappings(mm) ==
    LET ks == SortedSeq(mm) IN [j \in 1..Len(ks) |-> Ref(TRUE, ks[j])]

\* modifierListIdMappings[(itemIdNum - 1) % modifierListIdMappings.length]
RoundRobin(mlm, n) == mlm[((n - 1) % Len(mlm)) + 1]

\* The item pushed for itemIdNum n of a category that has a real id.
MappedItem(mm, n, items) ==
    ItemRec(n, Ref(TRUE, CategoryOf(n, items)),
               RoundRobin(ModifierListIdMappings(mm), n))

\* The loop over categories.entries(): a category without a real id is
\* skipped with a warning (continue), its items are never built.
CC_BuildItems(mc, mm) ==
    LET all     == [n \in 1..(categories * itemsPerCategory) |-> n]
        Kept(n) == CategoryOf(n, itemsPerCategory) \in mc
        kept    == SelectSeq(all, Kept)
    IN  [j \in 1..Len(kept) |-> MappedItem(mm, kept[j], itemsPerCategory)]

\* for (let i = 0; i < allItems.length; i += batchSize): the loop test at i = off
\* after the log lg; the next batch is sent, or the run completes successfully.
ChunkLoopFrom(lg, items, off) ==
    IF off < Len(items)
    THEN /\ log' = Append(lg, SendChunk(items, off))
         /\ pc' = "await_chunk"
         /\ UNCHANGED exitCode
    ELSE /\ log' = lg
         /\ pc' = "done"
         /\ exitCode' = "0"

InitCreateCatalog ==
    /\ script = "create-catalog-with-images" /\ InitFetch
    /\ ImportArgs
    /\ mappedCats = {} /\ mappedMods = {} /\ allItems = <<>> /\ itemOffset = 0
    /\ catState = <<>> /\ itemState = <<>>

\* One pass of the do-while of fetchAllImages; when the cursor is absent the
\* function returns and createCatalog sends the first upsert, or throws when
\* there is no image.
CC_FetchPage(r) ==
    /\ script = "create-catalog-with-images" /\ pc = "fetch"
    /\ fetches' = fetches + 1
    /\ IF r = "200"
       THEN /\ images' = Accumulate(images, PageObjects(cursor))
            /\ cursor' = PageCursor(cursor)
            /\ IF FollowCursor(cursor')
               THEN pc' = "fetch_delay" /\ UNCHANGED <<exitCode, thrown, log>>
               ELSE IF Len(images') = 0
                    THEN /\ IM_Catch("No images found in Square catalog")
                         /\ UNCHANGED log
                    ELSE /\ log' = <<Call("send-first", <<>>, "sent")>>
                         /\ pc' = "await_first"
                         /\ UNCHANGED <<exitCode, thrown>>
       ELSE /\ IM_Catch(r)
            /\ UNCHANGED <<images, cursor, log>>
    /\ UNCHANGED <<script, waited, notIm, imVars, srvImages, imgIdx, deletedCount,
                   errorCount>>

\* if (cursor) { await delay(1000); }
CC_FetchDelay ==
    /\ script = "create-catalog-with-images" /\ pc = "fetch_delay"
    /\ pc' = "fetch"
    /\ UNCHANGED <<script, exitCode, thrown, log, waited, notIm, pgVars, imVars>>

\* const firstBatchResponse = await catalogClient.batchUpsertItemObjects(...) resolves
CC_FirstResponse(r) ==
    /\ script = "create-catalog-with-images" /\ pc = "await_first"
    /\ log' = Append(log, Call("resp-first", <<>>, r))
    /\ IF FirstBatchSucceeded(r)
       THEN /\ mappedCats' \in SUBSET (1..categories)
            /\ mappedMods' \in SUBSET (1..modifierGroups)
            /\ pc' = "first_delay"
            /\ UNCHANGED <<exitCode, thrown>>
       ELSE /\ IM_Catch(r)
            /\ UNCHANGED <<mappedCats, mappedMods>>
    /\ UNCHANGED <<script, waited, notIm, pgVars, categories, itemsPerCategory,
                   modifierGroups, allItems, itemOffset, catState, itemState>>

\* after await delay(2000): the modifier list ids are mapped, allItems is built
\* and the first batch of items is sent
CC_AfterFirstDelay ==
    /\ script = "create-catalog-with-images" /\ pc = "first_delay"
    /\ IF mappedMods = {}
       THEN /\ IM_Catch("No modifier list IDs found after batch insert.")
            /\ UNCHANGED <<log, allItems>>
       ELSE /\ allItems' = CC_BuildItems(mappedCats, mappedMods)
            /\ ChunkLoopFrom(log, allItems', 0)
            /\ UNCHANGED thrown
    /\ UNCHANGED <<script, waited, notIm, pgVars, categories, itemsPerCategory,
                   modifierGroups, mappedCats, mappedMods, itemOffset, catState,
                   itemState>>

\* try { await batchUpsertItemObjects([{ objects: batch }]); await delay(1000); }
\* catch (error) { logWithTimestamp(...) }: a failed batch is logged and the
\* loop goes on with the next one.
CC_ChunkResponse(r) ==
    /\ script = "create-catalog-with-images" /\ pc = "await_chunk"
    /\ IF r = "200"
       THEN /\ log' = Append(log, RespChunk(allItems, itemOffset, r))
            /\ pc' = "chunk_delay"
            /\ UNCHANGED <<itemOffset, exitCode>>
       ELSE /\ itemOffset' = NextOffset(itemOffset, ItemBatchSize)
            /\ ChunkLoopFrom(Append(log, RespChunk(allItems, itemOffset, r)),
                             allItems, itemOffset')
    /\ UNCHANGED <<script, thrown, waited, notIm, pgVars, categories,
                   itemsPerCategory, modifierGroups, mappedCats, mappedMods,
                   allItems, catState, itemState>>

\* after await delay(1000): i += batchSize and the loop test
CC_ChunkDelay ==
    /\ script = "create-catalog-with-images" /\ pc = "chunk_delay"
    /\ itemOffset' = NextOffset(itemOffset, ItemBatchSize)
    /\ ChunkLoopFrom(log, allItems, itemOffset')
    /\ UNCHANGED <<script, thrown, waited, notIm, pgVars, categories,
                   itemsPerCategory, modifierGroups, mappedCats, mappedMods,
                   allItems, catState, itemState>>

NextCreateCatalog ==
    \/ \E r \in Statuses : CC_FetchPage(r)
    \/ CC_FetchDelay
    \/ \E r \in Statuses : CC_FirstResponse(r)
    \/ CC_AfterFirstDelay
    \/ \E r \in Statuses : CC_ChunkResponse(r)
    \/ CC_ChunkDelay

SpecCreateCatalog == InitCreateCatalog /\ [][NextCreateCatalog]_vars

\* Both scripts that page through the IMAGE objects with fetchAllImages.
SpecFetch ==
    (InitDeleteImages \/ InitCreateCatalog)
        /\ [][NextDeleteImages \/ NextCreateCatalog]_vars

(***************************************************************************)
(* C7.  fetchAllImages has returned once deleteAllImages is at its delete  *)
(* loop (or done), or once createCatalog has gone past the fetch.          *)
(***************************************************************************)
FetchReturned ==
    \/ /\ script = "delete-images"
       /\ pc \in {"di_delete", "di_delay", "done"}
    \/ /\ script = "create-catalog-with-images"
       /\ (log # <<>> \/ thrown = "No images found in Square catalog")

AllImagesOnce == images = [k \in 1..srvImages |-> k]

\* C7 as stated: with M objects served in pages of P, fetchAllImages returns
\* after exactly ceil(M/P) page fetches, for every M >= 0, holding all M
\* objects once each.  The empty catalog (M = 0) refutes it: the do-while
\* fetches one page before it can see that no cursor came back.
C7_ExactlyCeilFetches ==
    FetchReturned =>
        /\ fetches = CeilDiv(srvImages, PageSize)
        /\ AllImagesOnce

\* C7 (amended): fetchAllImages never makes more than max(1, ceil(M/P)) page
\* fetches, and when it returns it has made exactly max(1, ceil(M/P)) of them
\* and holds each of the M objects exactly once, in server order.
C7_CeilFetchesAtLeastOne ==
    /\ script \in {"delete-images", "create-catalog-with-images"}
          => fetches <= Max(1, CeilDiv(srvImages, PageSize))
    /\ FetchReturned =>
          /\ fetches = Max(1, CeilDiv(srvImages, PageSize))
          /\ AllImagesOnce

\* Five images in pages of two: three fetches, the last page short.
C7_Witness ==
    /\ FetchReturned
    /\ script = "create-catalog-with-images"
    /\ srvImages = 5 /\ fetches = 3 /\ Len(images) = 5

C7_WitnessEmpty ==
    /\ FetchReturned
    /\ script = "delete-images"
    /\ srvImages = 0 /\ fetches = 1 /\ images = <<>>

(***************************************************************************)
(* import-catalog-with-images.  After the first upsert the category        *)
(* callbacks run concurrently; catState[c] is the position of the callback *)
(* of category c and itemState[n] that of the callback of item n.  An      *)
(* image generation (limit(() => generateAndUploadImage(...))) settles as  *)
(* fulfilled or rejected, in any order.                                    *)
(***************************************************************************)
ItemsOf(c) ==
    {n \in 1..(categories * itemsPerCategory) : CategoryOf(n, itemsPerCategory) = c}

\* finally { await cleanupTempDirectory(); } of importCatalog runs when the try
\* block completes; the process.exit(1) of the catch ends the process before it.
WI_Finally == tempCleaned' = (pc' = "done")

\* Promise.all(categories.map(...)) has resolved: every callback has returned
FanOutResolved(cs) == \A c \in 1..Len(cs) : cs[c] \in {"skipped", "done"}

InitImportWithImages ==
    /\ script = "import-catalog-with-images" /\ pc = "start"
    /\ IdleCom /\ IdleUn /\ IdleSb /\ IdleBk /\ IdleFs /\ IdleUp /\ IdleTx /\ IdleOr /\ IdleGp /\ IdleCh /\ IdleDC /\ IdleDL /\ IdlePg
    /\ ImportArgs
    /\ mappedCats = {} /\ mappedMods = {} /\ allItems = <<>> /\ itemOffset = 0
    /\ catState = <<>> /\ itemState = <<>>

\* up to: const firstBatchResponse = await catalogClient.batchUpsertItemObjects(...)
WI_Start ==
    /\ script = "import-catalog-with-images" /\ pc = "start"
    /\ log' = <<Call("send-first", <<>>, "sent")>>
    /\ pc' = "await_first"
    /\ UNCHANGED <<script, exitCode, thrown, waited, notIm, pgVars, imVars>>

\* the first upsert resolves
WI_FirstResponse(r) ==
    /\ script = "import-catalog-with-images" /\ pc = "await_first"
    /\ log' = Append(log, Call("resp-first", <<>>, r))
    /\ IF FirstBatchSucceeded(r)
       THEN /\ mappedCats' \in SUBSET (1..categories)
            /\ mappedMods' \in SUBSET (1..modifierGroups)
            /\ pc' = "first_delay"
            /\ UNCHANGED <<exitCode, thrown>>
       ELSE /\ IM_Catch(r)
            /\ UNCHANGED <<mappedCats, mappedMods>>
    /\ UNCHANGED <<script, waited, notIm, pgVars, categories, itemsPerCategory,
                   modifierGroups, allItems, itemOffset, catState, itemState>>

\* after await delay(2000): the modifier list ids are mapped and the category
\* callbacks start; a category without a real id returns at once.
WI_AfterFirstDelay ==
    /\ script = "import-catalog-with-images" /\ pc = "first_delay"
    /\ IF mappedMods = {}
       THEN /\ IM_Catch("No modifier list IDs found after batch insert.")
            /\ UNCHANGED <<log, catState, itemState>>
       ELSE /\ catState' = [c \in 1..categories |->
                               IF c \in mappedCats THEN "image" ELSE "skipped"]
            /\ itemState' = [n \in 1..(categories * itemsPerCategory) |->
                               IF CategoryOf(n, itemsPerCategory) \in mappedCats
                               THEN "pending" ELSE "none"]
            /\ IF FanOutResolved(catState')
               THEN ChunkLoopFrom(log, allItems, 0)
               ELSE pc' = "fanout" /\ UNCHANGED <<log, exitCode>>
            /\ UNCHANGED thrown
    /\ WI_Finally
    /\ UNCHANGED <<script, waited, notImFs, pgVars, categories, itemsPerCategory,
                   modifierGroups, mappedCats, mappedMods, allItems, itemOffset>>

\* itemIdNum = categoryIndex * argv.items + itemIndex + 1
ItemIdNumPerCategory(categoryIndex, itemIndex, items) == itemIndex + 1
ItemIdNum(categoryIndex, itemIndex, items) == categoryIndex * items + itemIndex + 1

\* The images of the n-th item callback settle: allItems.push(...) when all
\* were generated, the item's own catch logs the error otherwise.
WI_ItemSettled(n, ok) ==
    /\ script = "import-catalog-with-images" /\ pc = "fanout"
    /\ n \in 1..Len(itemState) /\ itemState[n] = "pending"
    /\ IF ok
       THEN /\ allItems' =
                 Append(allItems,
                        MappedItem(mappedMods,
                                   ItemIdNum(CategoryOf(n, itemsPerCategory) - 1,
                                             (n - 1) % itemsPerCategory,
                                             itemsPerCategory),
                                   itemsPerCategory))
            /\ itemState' = [itemState EXCEPT ![n] = "pushed"]
       ELSE /\ itemState' = [itemState EXCEPT ![n] = "failed"]
            /\ UNCHANGED allItems
    /\ UNCHANGED <<comVars, notIm, pgVars, categories, itemsPerCategory,
                   modifierGroups, mappedCats, mappedMods, itemOffset, catState>>

\* The image of category c settles; a rejection rejects both Promise.all and
\* reaches the catch of importCatalog.
WI_CategoryImage(c, ok) ==
    /\ script = "import-catalog-with-images" /\ pc = "fanout"
    /\ c \in 1..Len(catState) /\ catState[c] = "image"
    /\ IF ok
       THEN /\ catState' = [catState EXCEPT ![c] = "imageOk"]
            /\ UNCHANGED <<pc, exitCode, thrown>>
       ELSE /\ IM_Catch("image")
            /\ UNCHANGED catState
    /\ UNCHANGED <<script, log, waited, notIm, pgVars, categories,
                   itemsPerCategory, modifierGroups, mappedCats, mappedMods,
                   allItems, itemOffset, itemState>>

\* Once the category image and every item of c have settled,
\* retrieveCatalogObject(realCategoryId) is awaited; it resolves.
WI_RetrieveResponse(c, r) ==
    /\ script = "import-catalog-with-images" /\ pc = "fanout"
    /\ c \in 1..Len(catState) /\ catState[c] = "imageOk"
    /\ \A n \in ItemsOf(c) : itemState[n] # "pending"
    /\ IF r = "200"
       THEN /\ catState' = [catState EXCEPT ![c] = "upsert"]
            /\ UNCHANGED <<pc, exitCode, thrown>>
       ELSE /\ IM_Catch(r)
            /\ UNCHANGED catState
    /\ UNCHANGED <<script, log, waited, notIm, pgVars, categories,
                   itemsPerCategory, modifierGroups, mappedCats, mappedMods,
                   allItems, itemOffset, itemState>>

\* upsertCatalogObject of category c resolves and the callback returns; when it
\* was the last one the batch loop starts.
WI_CategoryUpsertResponse(c, r) ==
    /\ script = "import-catalog-with-images" /\ pc = "fanout"
    /\ c \in 1..Len(catState) /\ catState[c] = "upsert"
    /\ IF r = "200"
       THEN /\ catState' = [catState EXCEPT ![c] = "done"]
            /\ IF FanOutResolved(catState')
               THEN ChunkLoopFrom(log, allItems, 0)
               ELSE UNCHANGED <<pc, exitCode, log>>
            /\ UNCHANGED thrown
       ELSE /\ IM_Catch(r)
            /\ UNCHANGED <<catState, log>>
    /\ WI_Finally
    /\ UNCHANGED <<script, waited, notImFs, pgVars, categories, itemsPerCategory,
                   modifierGroups, mappedCats, mappedMods, allItems, itemOffset,
                   itemState>>

\* try { await batchUpsertItemObjects([{ objects: batch }]) } catch { log }:
\* either way i += batchSize and the loop test
WI_ChunkResponse(r) ==
    /\ script = "import-catalog-with-images" /\ pc = "await_chunk"
    /\ itemOffset' = NextOffset(itemOffset, ItemBatchSize)
    /\ ChunkLoopFrom(Append(log, RespChunk(allItems, itemOffset, r)),
                     allItems, itemOffset')
    /\ WI_Finally
    /\ UNCHANGED <<script, thrown, waited, notImFs, pgVars, categories,
                   itemsPerCategory, modifierGroups, mappedCats, mappedMods,
                   allItems, catState, itemState>>

NextImportWithImages ==
    \/ WI_Start
    \/ \E r \in Statuses : WI_FirstResponse(r)
    \/ WI_AfterFirstDelay
    \/ \E n \in 1..Len(itemState), ok \in BOOLEAN : WI_ItemSettled(n, ok)
    \/ \E c \in 1..Len(catState), ok \in BOOLEAN : WI_CategoryImage(c, ok)
    \/ \E c \in 1..Len(catState), r \in Statuses : WI_RetrieveResponse(c, r)
    \/ \E c \in 1..Len(catState), r \in Statuses : WI_CategoryUpsertResponse(c, r)
    \/ \E r \in Statuses : WI_ChunkResponse(r)

SpecImportWithImages == InitImportWithImages /\ [][NextImportWithImages]_vars

\* The three import scripts.
SpecImports ==
    (InitImportCatalog \/ InitCreateCatalog \/ InitImportWithImages)
        /\ [][NextImportCatalog \/ NextCreateCatalog \/ NextImportWithImages]_vars

(***************************************************************************)
(* Claims about the import scripts.                                        *)
(***************************************************************************)
SentChunks == SelectSeq(log, LAMBDA e : e.op = "send-items")
FirstUpsertOk == \E j \in 1..Len(log) : log[j] = Call("resp-first", <<>>, "200")

\* A category placeholder that items refer to and the first upsert's
\* idMappings did not resolve.
UnresolvedCategories ==
    IF FirstUpsertOk /\ itemsPerCategory > 0
    THEN (1..categories) \ mappedCats
    ELSE {}

\* C9: every item submitted in a chunk carries server ids in place of the
\* "#Category<k>" and "#ModifierList<k>" placeholders, and when the first
\* upsert left a referenced category placeholder without a mapping the run
\* does not end successfully (it fails instead of submitting the placeholder
\* or leaving the category's items out).
C9_ResolvedOrFails ==
    script \in ImportScripts =>
        /\ \A k \in 1..Len(SentChunks) : \A j \in 1..Len(SentChunks[k].ids) :
              /\ SentChunks[k].ids[j].cat.real
              /\ SentChunks[k].ids[j].mod.real
        /\ UnresolvedCategories # {} => exitCode # "0"

\* C10: in every import script an item chunk is built or sent only after the
\* upsert of categories and modifier lists has returned successfully, and the
\* entry that follows the sending of a chunk is the return of that same call,
\* so no two chunk calls are ever in flight together.
C10_FirstThenSequential ==
    script \in ImportScripts =>
        /\ \A k \in 1..Len(log) :
              log[k].op = "send-items" =>
                 /\ \E j \in 1..(k - 1) : log[j] = Call("resp-first", <<>>, "200")
                 /\ k < Len(log) =>
                       /\ log[k + 1].op = "resp-items"
                       /\ log[k + 1].ids = log[k].ids
        /\ allItems # <<>> => FirstUpsertOk
        /\ pc = "await_chunk" <=>
              (log # <<>> /\ log[Len(log)].op = "send-items")

\* Two chunks were sent by a run that ended successfully.
C10_Witness ==
    /\ script = "import-catalog"
    /\ Len(SentChunks) = 2
    /\ SentChunks[1].ids # SentChunks[2].ids
    /\ exitCode = "0"

(***************************************************************************)
(* generate-images: argv.count units limit(() => generateAndUploadImage)   *)
(* are created at once; limit admits at most `limit` of them and, inside   *)
(* each, downloadLimit admits at most `downloadLimit` downloads.  The      *)
(* units are interchangeable, so the state counts the units at each point  *)
(* of generateAndUploadImage.  import-catalog-with-images creates its      *)
(* units (one per category image, item image and variation image) in the   *)
(* same way, through the same two pools.                                   *)
(***************************************************************************)
limitOneMore == 10 + 1
limit == 10
downloadLimit == 3

\* units that hold a slot of limit: started, not yet settled
LimitActiveKeepsFailed ==
    downloadQueue + delaying + downloading + uploading + retryWaiting + rejectedCount
LimitActive == downloadQueue + delaying + downloading + uploading + retryWaiting

\* units that hold a slot of downloadLimit
DownloadActive == delaying + downloading

AllSettled == fulfilledCount + rejectedCount = count

InitGenerateImages ==
    /\ script = "generate-images" /\ pc = "pool"
    /\ IdleCom /\ IdleUn /\ IdleSb /\ IdleBk /\ IdleFs /\ IdleUp /\ IdleTx /\ IdleOr /\ IdleCh /\ IdleDC /\ IdleDL /\ IdlePg /\ IdleIm
    /\ count \in 0..MaxCount
    /\ limitQueue = count
    /\ downloadQueue = 0 /\ delaying = 0 /\ downloading = 0 /\ uploading = 0
    /\ retryWaiting = 0 /\ fulfilledCount = 0 /\ rejectedCount = 0

\* limit dequeues a unit when it has a free slot; generateAndUploadImage runs
\* up to await downloadLimit(...), which queues the download.
GI_LimitStart ==
    /\ script = "generate-images" /\ pc = "pool"
    /\ limitQueue > 0 /\ LimitActive < limit
    /\ limitQueue' = limitQueue - 1
    /\ downloadQueue' = downloadQueue + 1
    /\ UNCHANGED <<comVars, notGp, count, delaying, downloading, uploading,
                   retryWaiting, fulfilledCount, rejectedCount>>

\* downloadLimit dequeues a download when it has a free slot: await delay(1000)
GI_DownloadStart ==
    /\ script = "generate-images" /\ pc = "pool"
    /\ downloadQueue > 0 /\ DownloadActive < downloadLimit
    /\ downloadQueue' = downloadQueue - 1
    /\ delaying' = delaying + 1
    /\ UNCHANGED <<comVars, notGp, count, limitQueue, downloading, uploading,
                   retryWaiting, fulfilledCount, rejectedCount>>

\* the delay(1000) is over: return axios.get(imageUrl, ...)
GI_DownloadGet ==
    /\ script = "generate-images" /\ pc = "pool"
    /\ delaying > 0
    /\ delaying' = delaying - 1
    /\ downloading' = downloading + 1
    /\ UNCHANGED <<comVars, notGp, count, limitQueue, downloadQueue, uploading,
                   retryWaiting, fulfilledCount, rejectedCount>>

\* The catch of generateAndUploadImage: a 429 waits delay(2000) and calls
\* generateAndUploadImage again, any other error is rethrown.
GI_Caught(r) ==
    IF r = "429"
    THEN /\ retryWaiting' = retryWaiting + 1
         /\ UNCHANGED rejectedCount
    ELSE /\ rejectedCount' = rejectedCount + 1
         /\ UNCHANGED retryWaiting

\* generateImages: catch (error) { ...; process.exit(1); }
GI_Catch(e) ==
    /\ pc' = "exit"
    /\ exitCode' = "1"
    /\ thrown' = e

\* generateImages after Promise.allSettled: the ids are written to
\* output/generated_image_ids.json, then finally { await cleanupTempDirectory(); }
\* and exit code 0; when mkdirSync or writeFileSync throws, the catch exits.
GI_Settle(f, rj) ==
    IF f + rj = count
    THEN \E written \in BOOLEAN :
            IF written
            THEN /\ pc' = "done" /\ exitCode' = "0"
                 /\ tempCleaned' = TRUE
                 /\ UNCHANGED thrown
            ELSE /\ GI_Catch("write")
                 /\ UNCHANGED tempCleaned
    ELSE UNCHANGED <<pc, exitCode, thrown, tempCleaned>>

\* axios.get settles and frees the slot of downloadLimit
GI_DownloadResponse(r) ==
    /\ script = "generate-images" /\ pc = "pool"
    /\ downloading > 0
    /\ downloading' = downloading - 1
    /\ IF r = "200"
       THEN /\ uploading' = uploading + 1
            /\ UNCHANGED <<retryWaiting, rejectedCount>>
       ELSE /\ GI_Caught(r)
            /\ UNCHANGED uploading
    /\ GI_Settle(fulfilledCount, rejectedCount')
    /\ UNCHANGED <<script, log, waited, notGpFs, count, limitQueue,
                   downloadQueue, delaying, fulfilledCount>>

\* createCatalogImage settles; a response without image id throws
\* 'No image ID returned'
GI_UploadResponse(r, hasId) ==
    /\ script = "generate-images" /\ pc = "pool"
    /\ uploading > 0
    /\ uploading' = uploading - 1
    /\ IF r = "200"
       THEN /\ IF hasId
               THEN fulfilledCount' = fulfilledCount + 1 /\ UNCHANGED rejectedCount
               ELSE rejectedCount' = rejectedCount + 1 /\ UNCHANGED fulfilledCount
            /\ UNCHANGED retryWaiting
       ELSE /\ GI_Caught(r)
            /\ UNCHANGED fulfilledCount
    /\ GI_Settle(fulfilledCount', rejectedCount')
    /\ UNCHANGED <<script, log, waited, notGpFs, count, limitQueue,
                   downloadQueue, delaying, downloading>>

\* the delay(2000) is over: return generateAndUploadImage(imageId, catalogClient),
\* inside the same slot of limit, queues a new download
GI_Retry ==
    /\ script = "generate-images" /\ pc = "pool"
    /\ retryWaiting > 0
    /\ retryWaiting' = retryWaiting - 1
    /\ downloadQueue' = downloadQueue + 1
    /\ UNCHANGED <<comVars, notGp, count, limitQueue, delaying, downloading,
                   uploading, fulfilledCount, rejectedCount>>

\* argv.count = 0: Promise.allSettled([]) resolves at once
GI_Empty ==
    /\ script = "generate-images" /\ pc = "pool"
    /\ count = 0
    /\ GI_Settle(fulfilledCount, rejectedCount)
    /\ UNCHANGED <<script, log, waited, notGpFs, gpVars>>

NextGenerateImages ==
    \/ GI_LimitStart
    \/ GI_DownloadStart
    \/ GI_DownloadGet
    \/ \E r \in Statuses : GI_DownloadResponse(r)
    \/ \E r \in Statuses, hasId \in BOOLEAN : GI_UploadResponse(r, hasId)
    \/ GI_Retry
    \/ GI_Empty

SpecGenerateImages == InitGenerateImages /\ [][NextGenerateImages]_vars

\* C8: at no point of any interleaving do more than 10 units hold a slot of
\* limit (started, not yet settled, the wait and the re-run after a 429
\* included) or more than 3 downloads hold a slot of downloadLimit.
C8_PoolsBounded ==
    script = "generate-images" =>
        /\ LimitActive <= 10
        /\ DownloadActive <= 3
        /\ limitQueue + LimitActive + fulfilledCount + rejectedCount = count

\* Both pools full while a unit waits to retry after a 429 and others queue.
C8_Witness ==
    /\ script = "generate-images"
    /\ LimitActive = 10 /\ DownloadActive = 3
    /\ retryWaiting > 0 /\ limitQueue > 0 /\ downloadQueue > 0

\* C17: when every submitted unit has settled, no unit holds a slot of limit
\* or of downloadLimit and none is left in either queue; and as long as the
\* fan-out is running some unit can take its next step, whatever units have
\* failed or are retrying.
C17_SlotsReleasedNoDeadlock ==
    script = "generate-images" =>
        /\ AllSettled =>
              /\ LimitActive = 0 /\ DownloadActive = 0
              /\ limitQueue = 0 /\ downloadQueue = 0
        /\ pc = "pool" => ENABLED NextGenerateImages
        /\ pc # "pool" => AllSettled

\* More units than slots have all settled, some of them by failing.
C17_Witness ==
    /\ script = "generate-images"
    /\ pc = "done"
    /\ count > limit
    /\ AllSettled
    /\ rejectedCount >= limit /\ fulfilledCount > 0

(***************************************************************************)
(* C11: in import-catalog-with-images and generate-images the process      *)
(* never ends, on the success path or after a caught error, without        *)
(* cleanupTempDirectory having run.                                        *)
(***************************************************************************)
C11_CleanupOnEveryExit ==
    script \in {"import-catalog-with-images", "generate-images"} =>
        (exitCode # "none" => tempCleaned)

SpecTempImages ==
    (InitImportWithImages \/ InitGenerateImages)
        /\ [][NextImportWithImages \/ NextGenerateImages]_vars

(***************************************************************************)
(* generateAndUploadImage for one image, on its own (part_000:132-215,     *)
(* order-data-generator.ts:113-196).  uuidv4() returns a value never       *)
(* returned before: the calls are numbered.  waited is the time slept in   *)
(* delay(2000), so the call in progress is number waited / RetryDelay + 1. *)
(***************************************************************************)
RetryDelay == 2000

\* idempotencyKey: uuidv4()
FreshKey(u) == u + 1

InitUpload ==
    /\ script = "generate-and-upload-image" /\ pc = "gu_delay"
    /\ IdleCom /\ IdleUn /\ IdleSb /\ IdleBk /\ IdleFs /\ IdleUp /\ IdleTx /\ IdleOr /\ IdleGp /\ IdleCh /\ IdleDC
    /\ IdleDL /\ IdlePg /\ IdleIm

\* downloadLimit(async () => { await delay(1000); return axios.get(...) })
GU_DownloadDelay ==
    /\ script = "generate-and-upload-image" /\ pc = "gu_delay"
    /\ pc' = "gu_get"
    /\ UNCHANGED <<script, exitCode, thrown, log, waited, notUp, upVars>>

\* axios.get settles; the image is processed, saved, and createCatalogImage is
\* called with idempotencyKey: uuidv4() and id: `#Image${uuidv4()}`
GU_GetResponse(r) ==
    /\ script = "generate-and-upload-image" /\ pc = "gu_get"
    /\ IF r = "200"
       THEN /\ log' = log \o <<Call("get", <<>>, r),
                               Call("send-upload", <<FreshKey(uuid)>>, "sent")>>
            /\ uuid' = uuid + 2
            /\ pc' = "gu_upload"
            /\ UNCHANGED thrown
       ELSE /\ log' = Append(log, Call("get", <<>>, r))
            /\ IF r = "429"
               THEN pc' = "gu_retry" /\ UNCHANGED thrown
               ELSE pc' = "rejected" /\ thrown' = r
            /\ UNCHANGED uuid
    /\ UNCHANGED <<script, exitCode, waited, notUp>>

\* createCatalogImage settles: the image id is returned, or the catch takes a
\* 429 to the retry and rethrows anything else
GU_UploadResponse(r, hasId) ==
    /\ script = "generate-and-upload-image" /\ pc = "gu_upload"
    /\ log' = Append(log, Call("resp-upload", log[Len(log)].ids, r))
    /\ IF r = "200"
       THEN IF hasId
            THEN pc' = "fulfilled" /\ UNCHANGED thrown
            ELSE pc' = "rejected" /\ thrown' = "No image ID returned"
       ELSE IF r = "429"
            THEN pc' = "gu_retry" /\ UNCHANGED thrown
            ELSE pc' = "rejected" /\ thrown' = r
    /\ UNCHANGED <<script, exitCode, waited, notUp, upVars>>

\* await delay(2000); return generateAndUploadImage(itemId, catalogClient)
GU_Retry ==
    /\ script = "generate-and-upload-image" /\ pc = "gu_retry"
    /\ (waited \div RetryDelay) + 1 < MaxAttempts
    /\ waited' = waited + RetryDelay
    /\ pc' = "gu_delay"
    /\ UNCHANGED <<script, exitCode, thrown, log, notUp, upVars>>

NextUpload ==
    \/ GU_DownloadDelay
    \/ \E r \in Statuses : GU_GetResponse(r)
    \/ \E r \in Statuses, hasId \in BOOLEAN : GU_UploadResponse(r, hasId)
    \/ GU_Retry

SpecUpload == InitUpload /\ [][NextUpload]_vars

UploadsSent == SelectSeq(log, LAMBDA e : e.op = "send-upload")

\* C12: every retry of the upload of one image carries the idempotency key of
\* the first attempt.
C12_StableIdempotencyKey ==
    script = "generate-and-upload-image" =>
        \A j, k \in 1..Len(UploadsSent) : UploadsSent[j].ids = UploadsSent[k].ids

\* C14: generateAndUploadImage is called at most twice for one image (one
\* forced retry after the 2 s delay), so at most two uploads are sent and at
\* most one delay(2000) is slept.
C14_AtMostOneRetry ==
    script = "generate-and-upload-image" =>
        /\ Len(UploadsSent) <= 2
        /\ waited <= RetryDelay

(***************************************************************************)
(* C13: in deleteLocations no location is attempted more than maxRetries   *)
(* times, and a location the loop has gone past without setting it         *)
(* INACTIVE has had an error raised for it: rate-limited on every allowed  *)
(* attempt is fatal.                                                       *)
(***************************************************************************)
UpdatesOf(x) ==
    Cardinality({k \in 1..Len(log) : log[k].op = "update" /\ log[k].ids = <<x>>})

C13_ExhaustionIsFatal ==
    script = "delete-locations" =>
        /\ \A k \in 1..Len(locationsToDelete) :
              UpdatesOf(locationsToDelete[k]) <= dlMaxRetries
        /\ \A k \in 1..loc :
              (locationsToDelete[k] # 0 /\ locationsToDelete[k] \notin srvInactive)
                 => thrown # "none"

(***************************************************************************)
(* C15: in create-catalog-with-images and import-catalog-with-images,      *)
(* once the upsert of an item chunk has failed the script never ends with  *)
(* exit code 0 (it never reports the import as completed successfully).    *)
(***************************************************************************)
ChunkFailed ==
    \E k \in 1..Len(log) : log[k].op = "resp-items" /\ log[k].status # "200"

C15_FailedChunkNonZeroExit ==
    script \in {"create-catalog-with-images", "import-catalog-with-images"} =>
        (ChunkFailed => exitCode # "0")

(***************************************************************************)
(* generate-orders.ts and order-data-generator, with the SquareManager     *)
(* methods they call.  A location is its id, 0 when it has none; item i of *)
(* the catalog has srvItems[i] variations and its first variation has id   *)
(* i.  searchCatalogItems passes no cursor: the response is the first      *)
(* PageLimit items.                                                        *)
(***************************************************************************)
OrderScripts == {"generate-orders", "order-data-generator"}

\* getRandomLocation: if (this.locations.length === 0) throw ...
LocationsAlwaysAvailable(locs) == FALSE
NoLocations(locs) == Len(locs) = 0

\* this.locations[randomIndex]: any element, undefined (-1) on an empty array
RandomLocation(locs) == IF locs = <<>> THEN {-1} ELSE Range(locs)

\* response.result.items.filter(variations.length > 0).map(variations[0].id)
SearchResult(items) ==
    LET page == [k \in 1..Min(PageLimit, Len(items)) |-> k]
    IN  SelectSeq(page, LAMBDA k : items[k] > 0)

\* SquareManager.createOrder: appliedTaxes: [] on every line item, replaced by
\* [{ taxUid: tax.id }] for a random tax when this.taxes is not empty
AppliedTaxes(txs) ==
    IF Len(txs) > 0 THEN {<<txs[k]>> : k \in 1..Len(txs)} ELSE {<<>>}

InitOrders ==
    /\ pc = "or_locations"
    /\ IdleCom /\ IdleUn /\ IdleSb /\ IdleBk /\ IdleFs /\ IdleUp /\ IdleGp /\ IdleCh /\ IdleDC /\ IdleDL
    /\ IdlePg /\ IdleIm
    /\ \E t \in 0..MaxOrderTaxes : srvTaxes = 1..t
    /\ taxes = <<>> /\ orderTaxes = {}
    /\ \E n \in 0..MaxLocations :
          srvLocs \in {s \in [1..n -> 0..n] : \A k \in 1..n : s[k] \in {0, k}}
    /\ \E n \in 0..MaxOrderItems : srvItems \in [1..n -> 0..1]
    /\ locations = <<>> /\ itemIds = <<>> /\ orderIdx = 0 /\ pending = {}
    /\ ordersOk = 0 /\ ordersFailed = 0 /\ cycle = 0

InitOrderDataGenerator == script = "order-data-generator" /\ InitOrders
InitGenerateOrders == script = "generate-orders" /\ InitOrders

\* main().catch(err => { ...; process.exit(1); }) and the catch of generateOrders
OR_Catch(e) ==
    /\ pc' = "exit"
    /\ exitCode' = "1"
    /\ thrown' = e

\* initializeLocations settles, then searchCatalogItems runs up to its await:
\* getRandomLocation, the location id test, the search call.
OR_InitLocations(r) ==
    /\ script \in OrderScripts /\ pc = "or_locations"
    /\ log' = <<Call("listLocations", <<>>, r)>>
    /\ IF r = "200"
       THEN /\ locations' = srvLocs
            /\ IF NoLocations(locations')
               THEN OR_Catch("No locations available")
               ELSE \E l \in RandomLocation(locations') :
                       IF l = -1
                       THEN OR_Catch("TypeError")
                       ELSE IF l = 0
                            THEN OR_Catch("Location ID is required")
                            ELSE /\ pc' = "or_search"
                                 /\ UNCHANGED <<exitCode, thrown>>
       ELSE /\ OR_Catch(r)
            /\ UNCHANGED locations
    /\ UNCHANGED <<script, waited, notOr, srvLocs, srvItems, itemIds, orderIdx,
                   pending, ordersOk, ordersFailed, orderTaxes, cycle>>

\* order-data-generator, processItems from item idx on: createOrder runs up to
\* its await (getRandomLocation, the location id test, the createOrder call);
\* past the last item main resolves.
OG_ProcessFrom(idx, ids, lg) ==
    IF idx > Len(ids)
    THEN /\ pc' = "done"
         /\ exitCode' = "0"
         /\ log' = lg
         /\ UNCHANGED <<thrown, orderTaxes>>
    ELSE IF NoLocations(locations)
         THEN /\ OR_Catch("No locations available") /\ log' = lg
              /\ UNCHANGED orderTaxes
         ELSE \E l \in RandomLocation(locations) :
                 IF l <= 0
                 THEN /\ OR_Catch("Location ID is required") /\ log' = lg
                      /\ UNCHANGED orderTaxes
                 ELSE /\ pc' = "og_order"
                      /\ log' = Append(lg, Call("send-order", <<ids[idx]>>, "sent"))
                      /\ \E tx \in AppliedTaxes(taxes) :
                            orderTaxes' = orderTaxes \cup {tx}
                      /\ UNCHANGED <<exitCode, thrown>>

\* await Promise.all(promises): resolved when no callback of the batch is left
PromiseFirst(p) == TRUE
PromiseAll(p) == p = {}

\* generate-orders, the for loop from batch start idx on: every callback of the
\* batch runs up to its await; a callback whose location has no id returns.
GO_BatchFrom(idx, ids) ==
    IF idx > Len(ids)
    THEN /\ pc' = "go_cycle_delay"
         /\ pending' = {}
         /\ UNCHANGED orderTaxes
    ELSE LET orderBatch == idx..Min(idx + OrderBatchSize - 1, Len(ids))
         IN  \E f \in [orderBatch -> RandomLocation(locations)] :
                /\ pending' = {ids[k] : k \in {j \in orderBatch : f[j] > 0}}
                /\ pc' = IF PromiseAll(pending') THEN "go_batch_delay" ELSE "go_batch"
                /\ IF pending' = {}
                   THEN UNCHANGED orderTaxes
                   ELSE \E T \in SUBSET AppliedTaxes(taxes) :
                           /\ T # {} /\ Cardinality(T) <= Cardinality(pending')
                           /\ orderTaxes' = orderTaxes \cup T

\* searchCatalogItems settles: order-data-generator enters processItems,
\* generate-orders its first cycle.
OR_SearchResponse(r) ==
    /\ script \in OrderScripts /\ pc = "or_search"
    /\ IF r = "200"
       THEN /\ itemIds' = SearchResult(srvItems)
            /\ orderIdx' = 1
            /\ IF script = "order-data-generator"
               THEN /\ OG_ProcessFrom(1, itemIds', Append(log, Call("search", <<>>, r)))
                    /\ UNCHANGED pending
               ELSE /\ GO_BatchFrom(1, itemIds')
                    /\ log' = Append(log, Call("search", <<>>, r))
                    /\ UNCHANGED <<exitCode, thrown>>
       ELSE /\ OR_Catch(r)
            /\ log' = Append(log, Call("search", <<>>, r))
            /\ UNCHANGED <<itemIds, orderIdx, pending, orderTaxes>>
    /\ UNCHANGED <<script, waited, notOr, srvLocs, locations, srvItems, ordersOk,
                   ordersFailed, cycle>>

\* order-data-generator: the awaited createOrder settles; an error is rethrown
\* by createOrder and ends main.
OG_OrderResponse(r) ==
    /\ script = "order-data-generator" /\ pc = "og_order"
    /\ log' = Append(log, Call("resp-order", <<itemIds[orderIdx]>>, r))
    /\ IF r = "200"
       THEN pc' = "og_delay" /\ UNCHANGED <<exitCode, thrown>>
       ELSE OR_Catch(r)
    /\ UNCHANGED <<script, waited, notOr, orVars>>

\* order-data-generator: await delay(1000) ends, the for loop moves on
OG_OrderDelay ==
    /\ script = "order-data-generator" /\ pc = "og_delay"
    /\ orderIdx' = orderIdx + 1
    /\ OG_ProcessFrom(orderIdx', itemIds, log)
    /\ UNCHANGED <<script, waited, notOr, srvLocs, locations, srvItems, itemIds,
                   pending, ordersOk, ordersFailed, cycle>>

\* generate-orders: one createOrder of the batch settles; its error is caught
\* and logged inside the callback.  Promise.all resolves with the last one.
GO_OrderSettled(r) ==
    /\ script = "generate-orders" /\ pc = "go_batch"
    /\ \E x \in pending :
          /\ pending' = pending \ {x}
          /\ pc' = IF PromiseAll(pending') THEN "go_batch_delay" ELSE "go_batch"
    /\ IF r = "200"
       THEN ordersOk' = ordersOk + 1 /\ UNCHANGED ordersFailed
       ELSE ordersFailed' = ordersFailed + 1 /\ UNCHANGED ordersOk
    /\ UNCHANGED <<script, exitCode, thrown, log, waited, notOr, srvLocs, locations,
                   srvItems, itemIds, orderIdx, orderTaxes, cycle>>

\* generate-orders: await delay(1000) after a batch, then the next batch
GO_BatchDelay ==
    /\ script = "generate-orders" /\ pc = "go_batch_delay"
    /\ orderIdx' = orderIdx + OrderBatchSize
    /\ GO_BatchFrom(orderIdx', itemIds)
    /\ UNCHANGED <<script, exitCode, thrown, log, waited, notOr, srvLocs, locations,
                   srvItems, itemIds, ordersOk, ordersFailed, cycle>>

\* generate-orders: await delay(1000) after a full cycle, then while (true)
\* starts over; the model follows MaxCycles further cycles.
GO_CycleDelay ==
    /\ script = "generate-orders" /\ pc = "go_cycle_delay"
    /\ cycle < MaxCycles
    /\ cycle' = cycle + 1
    /\ orderIdx' = 1
    /\ ordersOk' = 0 /\ ordersFailed' = 0
    /\ GO_BatchFrom(1, itemIds)
    /\ UNCHANGED <<script, exitCode, thrown, log, waited, notOr, srvLocs, locations,
                   srvItems, itemIds>>

NextOrderDataGenerator ==
    \/ \E r \in Statuses : OR_InitLocations(r)
    \/ \E r \in Statuses : OR_SearchResponse(r)
    \/ \E r \in Statuses : OG_OrderResponse(r)
    \/ OG_OrderDelay

NextGenerateOrders ==
    \/ \E r \in Statuses : OR_InitLocations(r)
    \/ \E r \in Statuses : OR_SearchResponse(r)
    \/ \E r \in Statuses : GO_OrderSettled(r)
    \/ GO_BatchDelay
    \/ GO_CycleDelay

NextOrders ==
    \/ \E r \in Statuses : OR_InitLocations(r)
    \/ \E r \in Statuses : OR_SearchResponse(r)
    \/ \E r \in Statuses : OG_OrderResponse(r)
    \/ OG_OrderDelay
    \/ \E r \in Statuses : GO_OrderSettled(r)
    \/ GO_BatchDelay
    \/ GO_CycleDelay

SpecOrderDataGenerator == InitOrderDataGenerator /\ [][NextOrderDataGenerator]_vars
SpecGenerateOrders == InitGenerateOrders /\ [][NextGenerateOrders]_vars
SpecOrders == (InitOrderDataGenerator \/ InitGenerateOrders) /\ [][NextOrders]_vars

OrdersSent == SelectSeq(log, LAMBDA e : e.op = "send-order")

\* C16: once initializeLocations has stored an empty location list,
\* getRandomLocation has raised 'No locations available' and the run has ended
\* with exit code 1 without a single createOrder call.
C16_NoLocationsAborts ==
    (/\ script \in OrderScripts
     /\ pc # "or_locations"
     /\ log[1].status = "200"
     /\ locations = <<>>)
    => /\ thrown = "No locations available"
       /\ exitCode = "1"
       /\ pc = "exit"
       /\ OrdersSent = <<>>
       /\ pending = {} /\ ordersOk = 0 /\ ordersFailed = 0

C16_Witness ==
    /\ script = "generate-orders"
    /\ pc = "exit"
    /\ log = <<Call("listLocations", <<>>, "200")>>
    /\ locations = <<>>
    /\ Len(srvItems) > 0

(***************************************************************************)
(* C18: against a server that raises no error and removes every object a   *)
(* delete names, delete-catalog terminates reporting success, and whenever *)
(* it has reported success no MODIFIER_LIST, ITEM, CATEGORY or DISCOUNT    *)
(* object is left, also when the catalog is larger than one listing page.  *)
(***************************************************************************)
C18_DeletesAll ==
    /\ <>(script = "delete-catalog" /\ pc = "done" /\ exitCode = "0")
    /\ [](script = "delete-catalog" /\ exitCode = "0"
             => srvModifierLists = {} /\ srvObjects = {})

\* Success after a catalog of more than one page: the last listing is empty
\* and more objects were deleted than one listing returns.
C18_Witness ==
    /\ script = "delete-catalog" /\ pc = "done" /\ exitCode = "0"
    /\ totalDeleted > PageLimit
    /\ srvObjects = {} /\ srvModifierLists = {}

(***************************************************************************)
(* manage-taxes delete: deleteTaxes of the script and of SquareManager.    *)
(* listTaxes is listCatalog(['TAX']) without a cursor: the first page of   *)
(* the TAX objects the server holds.                                       *)
(***************************************************************************)
InitManageTaxes ==
    /\ script = "manage-taxes" /\ pc = "mt_list"
    /\ IdleCom /\ IdleUn /\ IdleSb /\ IdleBk /\ IdleFs /\ IdleUp /\ IdleOr /\ IdleGp /\ IdleCh /\ IdleDC /\ IdleDL
    /\ IdlePg /\ IdleIm
    /\ srvTaxes \in SUBSET (1..MaxTaxes)
    /\ taxes = <<>>

\* deleteTaxes: catch (error) { console.error(...); process.exit(1); }
MT_Catch(e) ==
    /\ pc' = "exit"
    /\ exitCode' = "1"
    /\ thrown' = e

\* console.log('All taxes deleted successfully')
MT_Success ==
    /\ pc' = "done"
    /\ exitCode' = "0"
    /\ UNCHANGED thrown

\* const taxes = await this.listTaxes(); if (taxes.length > 0) ...
MT_ListResponse(r) ==
    /\ script = "manage-taxes" /\ pc = "mt_list"
    /\ IF r = "200"
       THEN /\ taxes' = ListPage(srvTaxes)
            /\ log' = <<Call("list", taxes', r)>>
            /\ IF Len(taxes') > 0
               THEN pc' = "mt_delete" /\ UNCHANGED <<exitCode, thrown>>
               ELSE MT_Success
       ELSE /\ log' = <<Call("list", <<>>, r)>>
            /\ MT_Catch(r)
            /\ UNCHANGED taxes
    /\ UNCHANGED <<script, waited, notTx, srvTaxes>>

\* await this.batchDeleteCatalogObjects(taxIds)
MT_DeleteResponse(r) ==
    /\ script = "manage-taxes" /\ pc = "mt_delete"
    /\ log' = Append(log, Call("delete", taxes, r))
    /\ IF r = "200"
       THEN /\ srvTaxes' = srvTaxes \ Range(taxes)
            /\ MT_Success
       ELSE /\ MT_Catch(r)
            /\ UNCHANGED srvTaxes
    /\ UNCHANGED <<script, waited, notTx, taxes>>

NextManageTaxes ==
    \/ \E r \in Statuses : MT_ListResponse(r)
    \/ \E r \in Statuses : MT_DeleteResponse(r)

SpecManageTaxes == InitManageTaxes /\ [][NextManageTaxes]_vars

\* C19: when manage-taxes delete has printed 'All taxes deleted successfully'
\* no TAX object is left on the server, whatever the number of taxes.
C19_AllTaxesDeleted ==
    script = "manage-taxes" /\ exitCode = "0" => srvTaxes = {}

\* first variation ids of the REGULAR items of the catalog that have a variation
ItemsWithVariation ==
    SelectSeq([k \in 1..Len(srvItems) |-> k], LAMBDA k : srvItems[k] > 0)

\* C20: when order-data-generator has ended without error, createOrder was
\* called exactly once for every catalog item with at least one variation,
\* in list order, and every call was answered before the next one was made.
C20_OneOrderPerItem ==
    script = "order-data-generator" /\ exitCode = "0" =>
        /\ [k \in 1..Len(OrdersSent) |-> OrdersSent[k].ids[1]] = ItemsWithVariation
        /\ \A j \in 1..Len(log) :
              log[j].op = "send-order" =>
                 /\ j < Len(log)
                 /\ log[j + 1].op = "resp-order"
                 /\ log[j + 1].ids = log[j].ids

\* C21: whenever the catalog holds at least one TAX object, every order that
\* order-data-generator has sent carries an applied tax on its line items.
C21_TaxesApplied ==
    script = "order-data-generator" /\ srvTaxes # {} => <<>> \notin orderTaxes

\* C22: delete-locations ends with exit code 0 only when no remote call has
\* raised an error that left the retry loop or the listing.
C22_ExitZeroWithoutError ==
    script = "delete-locations" /\ exitCode = "0" => thrown = "none"

(***************************************************************************)
(* The SIGINT handler of import-catalog-with-images and generate-images:   *)
(*   process.on('SIGINT', async () => { log; await cleanupTempDirectory(); *)
(*                                      process.exit(0); });               *)
(* cleanupTempDirectory has no await inside, so it has run to its end when *)
(* the handler reaches its await; nothing else is queued before            *)
(* process.exit(0).  The signal can arrive as long as the process runs.    *)
(***************************************************************************)
TempScripts == {"import-catalog-with-images", "generate-images"}

\* cleanupTempDirectory(): unlinkSync of every file, rmdirSync(tempDir)
CleanupSkipped == UNCHANGED tempCleaned
CleanupTempDirectory == tempCleaned' = TRUE

TI_Sigint ==
    /\ script \in TempScripts
    /\ exitCode = "none"
    /\ CleanupTempDirectory
    /\ pc' = "interrupted"
    /\ exitCode' = "0"
    /\ UNCHANGED <<script, thrown, log, waited, chVars, dcVars, dlVars, pgVars,
                   imVars, gpVars, upVars, txVars, orVars, bkVars, sbVars, unVars>>

SpecTempImagesSigint ==
    (InitImportWithImages \/ InitGenerateImages)
        /\ [][NextImportWithImages \/ NextGenerateImages \/ TI_Sigint]_vars

GenerateItemObjects(n, k) == [j \in 1..k |-> <<n, j>>]

\* if (bulkPayload.length >= 100)
BulkFull(bp) == Len(bp) >= BulkLimit

\* if (batchPayload.length >= 9)
BatchOverFull(bt) == Len(bt) > BatchLimit
BatchFull(bt) == Len(bt) >= BatchLimit

ItemsBefore(g) ==
    LET RECURSIVE upTo(_)
        upTo(h) == IF h = 0 THEN 0 ELSE itemCounts[h].count + upTo(h - 1)
    IN  upTo(g)

InitProcessCategory ==
    /\ script = "process-category" /\ pc = "pc_loop"
    /\ IdleCom /\ IdleUn /\ IdleSb /\ IdleFs /\ IdleUp /\ IdleTx /\ IdleOr /\ IdleGp /\ IdleCh /\ IdleDC
    /\ IdleDL /\ IdlePg /\ IdleIm
    /\ itemCounts \in UNION {[1..g -> [count : 0..MaxGroupCount, objs : 1..MaxObjsPerItem]]
                               : g \in 1..MaxGroups}
    /\ grp = 1 /\ index = 0
    /\ bulkPayload = <<>> /\ batchPayload = <<>> /\ generated = <<>>

\* the rejection of processCategory reaches the catch of importCatalog
PC_Catch(e) ==
    /\ pc' = "exit"
    /\ exitCode' = "1"
    /\ thrown' = e

\* One pass of the inner for loop up to its await or its end; past the last
\* entry of itemCounts, the handling of the remaining payloads.
PC_Step ==
    /\ script = "process-category" /\ pc = "pc_loop"
    /\ IF grp > Len(itemCounts)
       THEN LET bt == IF Len(bulkPayload) > 0
                      THEN Append(batchPayload, bulkPayload) ELSE batchPayload
            IN  /\ batchPayload' = bt
                /\ IF Len(bt) > 0
                   THEN /\ log' = Append(log, Call("send-upsert", bt, "sent"))
                        /\ pc' = "pc_last"
                        /\ UNCHANGED exitCode
                   ELSE /\ pc' = "done"
                        /\ exitCode' = "0"
                        /\ UNCHANGED log
                /\ UNCHANGED <<grp, index, bulkPayload, generated>>
       ELSE IF index >= itemCounts[grp].count
            THEN /\ grp' = grp + 1
                 /\ index' = 0
                 /\ UNCHANGED <<pc, exitCode, log, bulkPayload, batchPayload, generated>>
            ELSE LET objs   == GenerateItemObjects(ItemsBefore(grp - 1) + index + 1,
                                                   itemCounts[grp].objs)
                     pushed == bulkPayload \o objs
                     bt     == IF BulkFull(pushed)
                               THEN Append(batchPayload, pushed) ELSE batchPayload
                 IN  /\ generated' = generated \o objs
                     /\ bulkPayload' = IF BulkFull(pushed) THEN <<>> ELSE pushed
                     /\ batchPayload' = bt
                     /\ IF BatchFull(bt)
                        THEN /\ log' = Append(log, Call("send-upsert", bt, "sent"))
                             /\ pc' = "pc_await"
                             /\ UNCHANGED index
                        ELSE /\ index' = index + 1
                             /\ UNCHANGED <<pc, log>>
                     /\ UNCHANGED <<grp, exitCode>>
    /\ UNCHANGED <<script, thrown, waited, notBk, itemCounts>>

\* await catalogClient.batchUpsertItemObjects(batchPayload); batchPayload = [];
PC_Response(r) ==
    /\ script = "process-category" /\ pc = "pc_await"
    /\ log' = Append(log, Call("resp-upsert", <<>>, r))
    /\ IF r = "200"
       THEN /\ batchPayload' = <<>>
            /\ index' = index + 1
            /\ pc' = "pc_loop"
            /\ UNCHANGED <<exitCode, thrown>>
       ELSE /\ PC_Catch(r)
            /\ UNCHANGED <<batchPayload, index>>
    /\ UNCHANGED <<script, waited, notBk, itemCounts, grp, bulkPayload, generated>>

\* the request of the remaining payloads settles; processCategory returns
PC_LastResponse(r) ==
    /\ script = "process-category" /\ pc = "pc_last"
    /\ log' = Append(log, Call("resp-upsert", <<>>, r))
    /\ IF r = "200"
       THEN pc' = "done" /\ exitCode' = "0" /\ UNCHANGED thrown
       ELSE PC_Catch(r)
    /\ UNCHANGED <<script, waited, notBk, bkVars>>

NextProcessCategory ==
    \/ PC_Step
    \/ \E r \in Statuses : PC_Response(r)
    \/ \E r \in Statuses : PC_LastResponse(r)

SpecProcessCategory == InitProcessCategory /\ [][NextProcessCategory]_vars

\* the requests sent so far, each the list of its batches
SentRequests ==
    LET sends == SelectSeq(log, LAMBDA e : e.op = "send-upsert")
    IN  [k \in 1..Len(sends) |-> sends[k].ids]

\* the batches sent so far, in order
SentBatches == Flatten(SentRequests)

\* batches closed or sent, in order
AllBatches == IF pc = "pc_loop" THEN SentBatches \o batchPayload ELSE SentBatches

\* the batches closed or sent, then the batch still open
Containers ==
    AllBatches \o (IF pc \in {"pc_loop", "pc_await"} THEN <<bulkPayload>> ELSE <<>>)

C25_CountsAddUp ==
    script = "delete-images" =>
        /\ [k \in 1..Len(log) |-> log[k].ids[1]] = SubSeq(images, 1, imgIdx)
        /\ deletedCount = Cardinality({k \in 1..Len(log) : log[k].status = "200"})
        /\ errorCount = Cardinality({k \in 1..Len(log) : log[k].status # "200"})
        /\ deletedCount + errorCount = imgIdx
        /\ (exitCode = "0" => imgIdx = Len(images))
        /\ (exitCode = "1" => log = <<>>)

\* A run completed over more than one batch in which a delete failed and a
\* later one succeeded.
C25_Witness ==
    /\ script = "delete-images" /\ exitCode = "0"
    /\ Len(images) > DiBatchSize
    /\ errorCount > 0
    /\ \E j, k \in 1..Len(log) : j < k /\ log[j].status = "500" /\ log[k].status = "200"

(***************************************************************************)
(* C26: whatever maxRetries >= 0 safeBatchDelete is called with, it never  *)
(* throws 'Max retries reached for batchDeleteCatalogObjects': what it     *)
(* throws is the error of its last attempt, and on exhaustion that is the  *)
(* 429 of attempt number maxRetries.                                       *)
(***************************************************************************)
C26_MaxRetriesErrorUnreachable ==
    script = "delete-catalog" =>
        /\ thrown # "Max retries reached for batchDeleteCatalogObjects"
        /\ attempt <= retriesArg
        /\ (sbdResult = "thrown" =>
              /\ IsDelete(LastCall) /\ LastCall.ids = batch
              /\ thrown = LastCall.status /\ thrown # "200"
              /\ (thrown = "429" => attempt = retriesArg))

\* Exhaustion after at least one retry: the 429 of the last attempt is thrown.
C26_Witness ==
    /\ script = "delete-catalog" /\ sbdResult = "thrown" /\ thrown = "429"
    /\ retriesArg > 0 /\ attempt = retriesArg
    /\ waited > 0

(***************************************************************************)
(* C27: in import-catalog-with-images, under every interleaving of the     *)
(* item callbacks, the item numbers in allItems are pairwise distinct and  *)
(* each is the number of an item of a category with a real id.  The ids    *)
(* '#Item<n>' and '#Variation<n>_<i>' are functions of the item number n,  *)
(* so they are pairwise distinct as well.                                  *)
(***************************************************************************)
C27_ItemsDistinct ==
    script = "import-catalog-with-images" =>
        /\ \A j, k \in 1..Len(allItems) : j # k => allItems[j].n # allItems[k].n
        /\ \A j \in 1..Len(allItems) :
              /\ allItems[j].n \in 1..(categories * itemsPerCategory)
              /\ CategoryOf(allItems[j].n, itemsPerCategory) \in mappedCats

\* Items of two categories were appended, not in the order of their numbers.
C27_Witness ==
    /\ script = "import-catalog-with-images"
    /\ Len(allItems) >= 3
    /\ allItems[1].n > allItems[2].n
    /\ allItems[1].cat # allItems[3].cat

(***************************************************************************)
(* C28: in generate-orders the createOrder calls in flight are at most     *)
(* OrderBatchSize and all belong to the current batch; the loop moves to   *)
(* another batch only when none is in flight; a failed order never ends    *)
(* the run, and at the end of a cycle every order that was sent has        *)
(* settled, one per item when every location has an id.                    *)
(***************************************************************************)
C28_BatchesBoundedAndSequential ==
    /\ [](script = "generate-orders" =>
            /\ Cardinality(pending) <= OrderBatchSize
            /\ pending \subseteq
                  {itemIds[k] : k \in {j \in 1..Len(itemIds) :
                                          /\ j >= orderIdx
                                          /\ j < orderIdx + OrderBatchSize}}
            /\ (ordersOk + ordersFailed > 0 => exitCode = "none")
            /\ (pc = "go_cycle_delay" => pending = {})
            /\ (pc = "go_cycle_delay" /\ (\A k \in 1..Len(locations) : locations[k] > 0)
                  => ordersOk + ordersFailed = Len(itemIds)))
    /\ [][script = "generate-orders" /\ orderIdx' # orderIdx => pending = {}]_vars

\* A cycle over more than one batch has ended although orders failed.
C28_Witness ==
    /\ script = "generate-orders" /\ pc = "go_cycle_delay"
    /\ Len(itemIds) > OrderBatchSize
    /\ ordersFailed > 0 /\ ordersOk > 0
    /\ ordersOk + ordersFailed = Len(itemIds)

(***************************************************************************)
(* C29: in create-catalog-with-images and import-catalog-with-images every *)
(* item of allItems, and so every item of every chunk sent, carries the    *)
(* server id of its own category and the server id of a modifier list,     *)
(* both found in the idMappings of the first upsert; a category without a  *)
(* mapping has no item in allItems.                                        *)
(***************************************************************************)
C29_ItemsReferenceServerIds ==
    script \in {"create-catalog-with-images", "import-catalog-with-images"} =>
        /\ \A j \in 1..Len(allItems) :
              /\ allItems[j].cat.real
              /\ allItems[j].cat.k = CategoryOf(allItems[j].n, itemsPerCategory)
              /\ allItems[j].cat.k \in mappedCats
              /\ allItems[j].mod.real
              /\ allItems[j].mod.k \in mappedMods
        /\ \A k \in 1..Len(SentChunks) :
              Range(SentChunks[k].ids) \subseteq Range(allItems)

\* A successful run in which one category and one modifier list had no
\* mapping while the items of another category were sent.
C29_Witness ==
    /\ script = "import-catalog-with-images" /\ exitCode = "0"
    /\ mappedCats # {} /\ mappedCats # 1..categories
    /\ mappedMods # 1..modifierGroups
    /\ Len(SentChunks) > 0

(***************************************************************************)
(* generateImages, unit by unit (order-data-generator.ts:215-273).  Unit i *)
(* is limit(() => generateAndUploadImage('Image<i>')); the image id a      *)
(* fulfilled unit i returns is i.  The order in which the pools let the    *)
(* units proceed is left open: any unit that has not settled can take its  *)
(* next step.                                                              *)
(***************************************************************************)
\* results.forEach((result, index) => { if (result.status === 'fulfilled')
\*                                        imageIds.push(result.value); ... })
RECURSIVE ForEachPushAll(_)
ForEachPushAll(rs) ==
    IF rs = <<>> THEN <<>>
    ELSE Append(ForEachPushAll(SubSeq(rs, 1, Len(rs) - 1)), Len(rs))
RECURSIVE ForEachPush(_)
ForEachPush(rs) ==
    IF rs = <<>> THEN <<>>
    ELSE LET before == ForEachPush(SubSeq(rs, 1, Len(rs) - 1))
         IN  IF rs[Len(rs)] = "fulfilled" THEN Append(before, Len(rs)) ELSE before

\* Promise.allSettled resolves when every promise is fulfilled or rejected
UnitsSettled(rs) == \A k \in 1..Len(rs) : rs[k] \in {"fulfilled", "rejected"}

InitGenerateImagesUnits ==
    /\ script = "generate-images" /\ pc = "units"
    /\ IdleCom /\ IdleSb /\ IdleBk /\ IdleFs /\ IdleUp /\ IdleTx /\ IdleOr /\ IdleGp
    /\ IdleCh /\ IdleDC /\ IdleDL /\ IdlePg /\ IdleIm
    /\ \E n \in 0..MaxUnits : results = [k \in 1..n |-> "running"]
    /\ imageIds = <<>>

\* after await Promise.allSettled(imagePromises): the forEach, the write of
\* generated_image_ids.json and the finally; mkdirSync or writeFileSync may throw.
GN_AfterSettled(rs) ==
    IF UnitsSettled(rs)
    THEN \E written \in BOOLEAN :
            IF written
            THEN /\ imageIds' = ForEachPush(rs)
                 /\ pc' = "done" /\ exitCode' = "0"
                 /\ tempCleaned' = TRUE
                 /\ UNCHANGED thrown
            ELSE /\ GI_Catch("write")
                 /\ UNCHANGED <<imageIds, tempCleaned>>
    ELSE UNCHANGED <<pc, exitCode, thrown, imageIds, tempCleaned>>

\* generateAndUploadImage of unit k settles its download or its upload: the
\* id is returned, a 429 waits delay(2000) before the recursive call, any
\* other outcome rejects the unit.
GN_UnitResponse(k, r, hasId) ==
    /\ script = "generate-images" /\ pc = "units"
    /\ k \in 1..Len(results) /\ results[k] = "running"
    /\ results' = [results EXCEPT ![k] =
                      IF r = "200" /\ hasId THEN "fulfilled"
                      ELSE IF r = "429" THEN "retryWaiting" ELSE "rejected"]
    /\ GN_AfterSettled(results')
    /\ UNCHANGED <<script, log, waited, notUnFs>>

\* the delay(2000) of unit k is over: return generateAndUploadImage(...)
GN_UnitRetry(k) ==
    /\ script = "generate-images" /\ pc = "units"
    /\ k \in 1..Len(results) /\ results[k] = "retryWaiting"
    /\ results' = [results EXCEPT ![k] = "running"]
    /\ UNCHANGED <<comVars, notUnFs, fsVars, imageIds>>

\* argv.count = 0: Promise.allSettled([]) resolves at once
GN_Empty ==
    /\ script = "generate-images" /\ pc = "units"
    /\ results = <<>>
    /\ GN_AfterSettled(results)
    /\ UNCHANGED <<script, log, waited, notUnFs, results>>

NextGenerateImagesUnits ==
    \/ \E k \in 1..MaxUnits, r \in Statuses, hasId \in BOOLEAN : GN_UnitResponse(k, r, hasId)
    \/ \E k \in 1..MaxUnits : GN_UnitRetry(k)
    \/ GN_Empty

SpecGenerateImagesUnits == InitGenerateImagesUnits /\ [][NextGenerateImagesUnits]_vars

\* C30: a rejected unit never ends the fan-out: the run leaves it only when
\* every unit has settled; the list then written holds exactly the ids of the
\* fulfilled units in index order, so its length is the number of fulfilled
\* units and at most argv.count.
C30_ListIsFulfilledInOrder ==
    script = "generate-images" /\ Len(results) > 0 =>
        /\ (pc = "units" => exitCode = "none" /\ ~UnitsSettled(results))
        /\ (pc # "units" => UnitsSettled(results))
        /\ (exitCode = "0" =>
              /\ \A k \in 1..Len(results) :
                    results[k] = "fulfilled" <=> k \in Range(imageIds)
              /\ \A j, k \in 1..Len(imageIds) : j < k => imageIds[j] < imageIds[k]
              /\ Len(imageIds) =
                    Cardinality({k \in 1..Len(results) : results[k] = "fulfilled"})
              /\ Len(imageIds) <= Len(results))

\* A written list after a failure: a rejected unit between two fulfilled ones.
C30_Witness ==
    /\ script = "generate-images" /\ exitCode = "0"
    /\ Len(results) >= 3
    /\ results[1] = "fulfilled" /\ results[2] = "rejected" /\ results[3] = "fulfilled"
    /\ imageIds[1] = 1 /\ imageIds[2] = 3

====
